---- MODULE Spec2Model ----
(***************************************************************************)
(* Verification model of the CB -> CNS report converter:                   *)
(*   - the record model and merge_schemas (backend/schemas/report_schema), *)
(*   - the chunk extraction pipeline (backend/services/azure_llm),         *)
(*   - run-span substitution, rendering and post-render validation         *)
(*     (backend/services/word_filler) and its caller (backend/main).       *)
(* Text is modelled as a sequence of one-character strings, so that        *)
(* slicing, searching and case conversion are computed, not assumed.       *)
(***************************************************************************)
EXTENDS Integers, Sequences, FiniteSets, TLC

VARIABLES
    chunks,       \* per chunk: the partial record its _process_chunk call yields
    merged,       \* merged_schema of the extraction / accumulator of the fold
    idx,          \* number of chunks folded so far (fold specification)
    pc,           \* position of the running coroutine / function
    max_concurrent, \* max_concurrent of this extraction
    batch_start,  \* batch_start of the wave loop
    futures,      \* per chunk: "idle", "running", "done" (returned) or "failed" (raised)
    done_order,   \* chunk indexes in the order their calls completed
    runs,         \* run texts of the paragraph under substitution
    runs0,        \* the run texts before the call
    old_text,     \* literal searched by replace_text_in_runs
    new_text,     \* replacement text
    outcome,      \* result of the last call: "none", "True", "False", "ValueError", ...
    template,     \* the template the render loaded
    doc,          \* the document being rendered, then the saved artifact
    expected,     \* the expectations handed to post_render_validate
    errors,       \* failure reasons collected by post_render_validate
    event,        \* SSE event generate_report ends with: "none", "complete", "error"
    user_inputs,  \* the operator's form fields handed to fill_cns_template
    placeholder_mapping, \* placeholder_mapping of fill_cns_template
    xml_content,  \* word/document.xml of the saved file, as markup tokens
    attempts,     \* per chunk: attempts of its _call_llm made so far
    _token_tracker, \* the module's global TokenUsageTracker
    extractions   \* per running extraction: its position, calls and statistics

vars == <<chunks, merged, idx, pc, max_concurrent, batch_start, futures, done_order,
          runs, runs0, old_text, new_text, outcome, template, doc, expected, errors, event,
          user_inputs, placeholder_mapping, xml_content,
          attempts, _token_tracker, extractions>>

mergeVars  == <<chunks, merged, idx, pc, max_concurrent, batch_start, futures, done_order>>
runVars    == <<runs, runs0, old_text, new_text, outcome>>
renderVars == <<template, doc, expected, errors, event>>
callVars   == <<attempts, _token_tracker, extractions>>
extraVars  == <<user_inputs, placeholder_mapping, xml_content,
                attempts, _token_tracker, extractions>>

(***************************************************************************)
(* Bounds                                                                  *)
(***************************************************************************)
MaxChunks == 3     \* number of chunks of one extraction
MaxRuns   == 3     \* number of runs a paragraph is split into
MaxConcurrent == 2 \* largest max_concurrent an extraction is called with

(***************************************************************************)
(* Text                                                                    *)
(***************************************************************************)
Lower == <<"a","b","c","d","e","f","g","h","i","j","k","l","m",
           "n","o","p","q","r","s","t","u","v","w","x","y","z">>
Upper == <<"A","B","C","D","E","F","G","H","I","J","K","L","M",
           "N","O","P","Q","R","S","T","U","V","W","X","Y","Z">>
Digits == {"0","1","2","3","4","5","6","7","8","9"}

\* str.upper() on one character
UpperChar(c) ==
    IF \E i \in 1..Len(Lower) : Lower[i] = c
    THEN Upper[CHOOSE i \in 1..Len(Lower) : Lower[i] = c]
    ELSE c

\* str.upper()
ToUpper(s) == [i \in 1..Len(s) |-> UpperChar(s[i])]

\* s[a:b] of Python for 0 <= a, with 0-based half-open bounds
Slice(s, a, b) ==
    LET hi == IF b > Len(s) THEN Len(s) ELSE b
    IN  IF a >= hi THEN <<>> ELSE SubSeq(s, a + 1, hi)

\* lit occurs in s at 0-based offset i
MatchAt(s, lit, i) ==
    /\ i >= 0
    /\ i + Len(lit) <= Len(s)
    /\ \A k \in 1..Len(lit) : s[i + k] = lit[k]

\* `lit in s`
Contains(s, lit) == \E i \in 0..Len(s) : MatchAt(s, lit, i)

\* s.find(lit): 0-based offset of the first occurrence, -1 when absent
Find(s, lit) ==
    IF Contains(s, lit)
    THEN CHOOSE i \in 0..Len(s) :
            /\ MatchAt(s, lit, i)
            /\ \A j \in 0..(i - 1) : ~MatchAt(s, lit, j)
    ELSE -1

\* "".join(texts)
RECURSIVE Join(_)
Join(texts) ==
    IF texts = <<>> THEN <<>> ELSE Head(texts) \o Join(Tail(texts))

Range(s) == {s[i] : i \in 1..Len(s)}

\* number of occurrences of lit in s (overlapping ones counted)
Occurrences(s, lit) == Cardinality({i \in 0..Len(s) : MatchAt(s, lit, i)})

(***************************************************************************)
(* Record model (report_schema.py)                                         *)
(***************************************************************************)
\* Python None; a text is a sequence of one-character strings, so this
\* value is different from every text
None == <<"<None>">>
\* None in a field that otherwise holds a list of texts
NoneList == <<None>>
EmptyStr == <<>>
EmptyList == <<>>

FlagNames == {"is_av", "is_ict", "is_av_ict", "is_telecom",
              "is_ordinary", "is_skilled", "is_instructed",
              "is_class_i", "is_class_ii", "is_class_iii",
              "is_direct_plugin", "is_stationary", "is_building_in",
              "is_wall_ceiling", "is_rack_mounted", "is_portable", "is_fixed",
              "is_pluggable_a", "is_pluggable_b", "is_permanently_connected"}

\* the list-typed fields of TestItemParticulars
TipListKeys == {"classification_of_use", "supply_connection"}

BasicInfo == [cb_report_no |-> EmptyStr, ast_report_no |-> None,
              applicant_en |-> EmptyStr, brand |-> None,
        cns_report_no |-> None, applicant_address_en |-> EmptyStr]

TestItemParticulars == [product_group |-> None, mobility |-> None,
                        classification_of_use |-> EmptyList,
                        supply_connection |-> EmptyList,
         mains_supply |-> None, pollution_degree |-> None]

\* a raw table is a list of rows, each row carried as one opaque text
KeyTables == [input_tests |-> EmptyList, input_test_raw |-> NoneList]

Translations == [applicant_zh |-> None, applicant_address_zh |-> None]

CheckboxFlags == [f \in FlagNames |-> FALSE]

\* ReportSchema() with every field at its default
ReportSchema ==
    [basic_info |-> BasicInfo,
     test_item_particulars |-> TestItemParticulars,
     series_models |-> EmptyList,
     clause_verdicts |-> EmptyList,
     key_tables |-> KeyTables,
     factories |-> EmptyList,
     attachments |-> NoneList,
     revision_records |-> EmptyList,
     translations |-> Translations,
     checkbox_flags |-> CheckboxFlags]

create_empty_schema == ReportSchema

\* user_inputs of generate_report: the six form fields, stripped, "" when
\* the operator left them out
NoInputs == [applicant_name |-> EmptyStr, applicant_address |-> EmptyStr,
             cns_report_no |-> EmptyStr, report_author |-> EmptyStr,
             report_signer |-> EmptyStr, series_model |-> EmptyStr]

\* TokenUsageTracker(): a tracker with its three counters at zero
TokenUsageTracker ==
    [total_prompt_tokens |-> 0, total_completion_tokens |-> 0, call_count |-> 0]

\* no extraction is running and no call has been attempted
NoCalls ==
    /\ attempts = <<>>
    /\ _token_tracker = TokenUsageTracker
    /\ extractions = <<>>

SeriesModel(model, vout) == [model |-> model, vout |-> vout]
ClauseVerdict(clause, verdict, comment_en) ==
    [clause |-> clause, verdict |-> verdict, comment_en |-> comment_en]
FactoryInfo(name, address) == [name |-> name, address |-> address]

(***************************************************************************)
(* Python containers                                                       *)
(***************************************************************************)
CharCode(c) ==
    IF \E i \in 1..Len(Lower) : Lower[i] = c
    THEN 2 * (CHOOSE i \in 1..Len(Lower) : Lower[i] = c)
    ELSE IF \E i \in 1..Len(Upper) : Upper[i] = c
         THEN 2 * (CHOOSE i \in 1..Len(Upper) : Upper[i] = c) + 1
         ELSE 0

\* hash(str): a fixed function of the characters within one process
RECURSIVE PyHash(_)
PyHash(s) ==
    IF s = <<>> THEN 7 ELSE (31 * PyHash(Tail(s)) + CharCode(Head(s))) % 251

\* list(set(xs)): the distinct elements, in the iteration order of the set,
\* which is decided by the element hashes and not by the order of insertion
\* (one interpreter process, so one hash function, runs a whole extraction)
RECURSIVE ListOfSet(_)
ListOfSet(S) ==
    IF S = {} THEN <<>>
    ELSE LET m == CHOOSE x \in S : \A y \in S : PyHash(x) <= PyHash(y)
         IN  <<m>> \o ListOfSet(S \ {m})

\* a dict is kept as the list of its (key, value) entries in insertion order;
\* d[key] = value replaces the value of a present key in place, else appends
DictSet(d, key, value) ==
    IF \E i \in 1..Len(d) : d[i].key = key
    THEN [i \in 1..Len(d) |-> IF d[i].key = key
                              THEN [key |-> key, value |-> value] ELSE d[i]]
    ELSE Append(d, [key |-> key, value |-> value])

DictHas(d, key) == \E i \in 1..Len(d) : d[i].key = key

\* list(d.values())
DictValues(d) == [i \in 1..Len(d) |-> d[i].value]

\* list(dict.fromkeys(xs)): first occurrences, in order
RECURSIVE FromKeys(_, _)
FromKeys(xs, seen) ==
    IF xs = <<>> THEN <<>>
    ELSE IF Head(xs) \in seen THEN FromKeys(Tail(xs), seen)
         ELSE <<Head(xs)>> \o FromKeys(Tail(xs), seen \cup {Head(xs)})

(***************************************************************************)
(* merge_schemas (report_schema.py)                                        *)
(***************************************************************************)
MergeScalarKeepOld(old, value) == IF old # None /\ old # EmptyStr THEN old ELSE value

\* one key of the basic_info / translations loops:
\*   if value is not None and value != "": base_dict[key] = value
MergeScalar(old, value) ==
    IF value # None /\ value # EmptyStr THEN value ELSE old

MergeDictFields(base, update) ==
    [k \in DOMAIN base |-> MergeScalar(base[k], update[k])]

\* list(set(existing + value))
MergeTipList(existing, value) == ListOfSet(Range(existing \o value))

\* the test_item_particulars loop:
\*   if value is not None and value != "" and value != []:
\*       list -> list(set(existing + value)), else overwrite
\* (a list field is a List[str], never None or a str, so for it only the
\* test against [] decides)
MergeTip(base_tip, update_tip) ==
    [k \in DOMAIN base_tip |->
        LET value == update_tip[k]
        IN  IF k \in TipListKeys
            THEN IF value # EmptyList
                 THEN MergeTipList(base_tip[k], value)
                 ELSE base_tip[k]
            ELSE MergeScalar(base_tip[k], value)]

\* {m.model: m for m in merged.series_models}
RECURSIVE DictOfModels(_, _)
DictOfModels(models, d) ==
    IF models = <<>> THEN d
    ELSE DictOfModels(Tail(models), DictSet(d, Head(models).model, Head(models)))

RECURSIVE AddModels(_, _)
AddModels(d, models) ==
    IF models = <<>> THEN d
    ELSE LET model == Head(models)
         IN  IF model.model # EmptyStr /\ ~DictHas(d, model.model)
             THEN AddModels(DictSet(d, model.model, model), Tail(models))
             ELSE AddModels(d, Tail(models))

MergeSeriesLastWins(base_models, update_models) ==
    LET RECURSIVE Put(_, _)
        Put(d, models) ==
            IF models = <<>> THEN d
            ELSE IF Head(models).model # EmptyStr
                 THEN Put(DictSet(d, Head(models).model, Head(models)), Tail(models))
                 ELSE Put(d, Tail(models))
    IN  DictValues(Put(DictOfModels(base_models, <<>>), update_models))

\* series_models: keyed by model, an unseen non-empty key is added
MergeSeries(base_models, update_models) ==
    DictValues(AddModels(DictOfModels(base_models, <<>>), update_models))

\* {c.clause: c for c in merged.clause_verdicts}
RECURSIVE DictOfClauses(_, _)
DictOfClauses(verdicts, d) ==
    IF verdicts = <<>> THEN d
    ELSE DictOfClauses(Tail(verdicts), DictSet(d, Head(verdicts).clause, Head(verdicts)))

RECURSIVE AddClauses(_, _)
AddClauses(d, verdicts) ==
    IF verdicts = <<>> THEN d
    ELSE LET verdict == Head(verdicts)
         IN  IF verdict.clause # EmptyStr
             THEN AddClauses(DictSet(d, verdict.clause, verdict), Tail(verdicts))
             ELSE AddClauses(d, Tail(verdicts))

\* clause_verdicts: existing_clauses[verdict.clause] = verdict for every
\* verdict of the update with a non-empty clause
MergeClauses(base_verdicts, update_verdicts) ==
    DictValues(AddClauses(DictOfClauses(base_verdicts, <<>>), update_verdicts))

MergeRawAlways(old, value) == value

\* if update.key_tables.input_test_raw: merged... = update...
MergeRaw(old, value) ==
    IF value # NoneList /\ value # EmptyList THEN value ELSE old

MergeKeyTables(base_kt, update_kt) ==
    [input_tests |-> base_kt.input_tests \o update_kt.input_tests,
     input_test_raw |-> MergeRaw(base_kt.input_test_raw, update_kt.input_test_raw)]

\* checkbox_flags: if value: base_flags[key] = True
MergeFlags(base_flags, update_flags) ==
    [k \in DOMAIN base_flags |-> IF update_flags[k] THEN TRUE ELSE base_flags[k]]

RECURSIVE AddFactories(_, _, _)
AddFactories(factories, existing, update_factories) ==
    IF update_factories = <<>> THEN factories
    ELSE LET f == Head(update_factories)
             key == <<f.name, f.address>>
         IN  IF key \notin existing
             THEN AddFactories(Append(factories, f), existing \cup {key},
                               Tail(update_factories))
             ELSE AddFactories(factories, existing, Tail(update_factories))

MergeFactoriesNoAdd(base_factories, update_factories) ==
    LET existing == {<<base_factories[i].name, base_factories[i].address>> :
                        i \in 1..Len(base_factories)}
        keep == SelectSeq(update_factories,
                          LAMBDA f : <<f.name, f.address>> \notin existing)
    IN  base_factories \o keep

\* factories: de-duplicated by (name, address)
MergeFactories(base_factories, update_factories) ==
    IF update_factories # EmptyList
    THEN AddFactories(base_factories,
                      {<<base_factories[i].name, base_factories[i].address>> :
                          i \in 1..Len(base_factories)},
                      update_factories)
    ELSE base_factories

\* if update.attachments: merged first, then the unseen ones of the update
MergeAttachments(old, value) ==
    IF value # NoneList /\ value # EmptyList
    THEN IF old # NoneList /\ old # EmptyList
         THEN FromKeys(old \o value, {})
         ELSE value
    ELSE old

merge_schemas(base, update) ==
    [basic_info |-> MergeDictFields(base.basic_info, update.basic_info),
     test_item_particulars |->
         MergeTip(base.test_item_particulars, update.test_item_particulars),
     series_models |-> MergeSeries(base.series_models, update.series_models),
     clause_verdicts |-> MergeClauses(base.clause_verdicts, update.clause_verdicts),
     key_tables |-> MergeKeyTables(base.key_tables, update.key_tables),
     factories |-> MergeFactories(base.factories, update.factories),
     attachments |-> MergeAttachments(base.attachments, update.attachments),
     revision_records |-> base.revision_records,
     translations |-> MergeDictFields(base.translations, update.translations),
     checkbox_flags |-> MergeFlags(base.checkbox_flags, update.checkbox_flags)]

(***************************************************************************)
(* Texts used as inputs                                                    *)
(***************************************************************************)
TxtX == <<"X">>
TxtY == <<"Y">>
Ordinary == <<"O","r","d","i","n","a","r","y">>
ORDINARY == <<"O","R","D","I","N","A","R","Y">>
Skilled == <<"S","k","i","l","l","e","d">>
ClassI == <<"C","l","a","s","s"," ","I">>
ClassII == <<"C","l","a","s","s"," ","I","I">>
GroupAV == <<"A","V">>
GroupICT == <<"I","C","T">>
Portable == <<"P","o","r","t","a","b","l","e">>
ModelM1 == <<"M","1">>
ModelM2 == <<"M","2">>
Vout5 == <<"5","V">>
Vout9 == <<"9","V">>
Clause41 == <<"4",".","1">>
Clause42 == <<"4",".","2">>
VerdictP == <<"P">>
VerdictF == <<"F">>
FactoryF == <<"F","a","b">>
FactoryG == <<"G","m","b">>
AddrA == <<"A","1">>
AddrB == <<"B","2">>
Row1 == <<"r","1">>
Row2 == <<"r","2">>
Att1 == <<"a","1">>
Att2 == <<"a","2">>

(***************************************************************************)
(* Fold of merge_schemas over a list of arbitrary records                  *)
(***************************************************************************)
RecA ==
    [basic_info |-> [cb_report_no |-> TxtX, ast_report_no |-> TxtX,
                     applicant_en |-> TxtX, brand |-> TxtX,
        cns_report_no |-> None, applicant_address_en |-> EmptyStr],
     test_item_particulars |->
        [product_group |-> GroupAV, mobility |-> Portable,
         classification_of_use |-> <<Ordinary>>,
         supply_connection |-> <<ClassI>>,
         mains_supply |-> None, pollution_degree |-> None],
     series_models |-> <<SeriesModel(ModelM1, Vout5)>>,
     clause_verdicts |-> <<ClauseVerdict(Clause41, VerdictP, TxtX)>>,
     key_tables |-> [input_tests |-> <<Row1>>, input_test_raw |-> <<Row1>>],
     factories |-> <<FactoryInfo(FactoryF, AddrA)>>,
     attachments |-> <<Att1>>,
     revision_records |-> EmptyList,
     translations |-> [applicant_zh |-> TxtX, applicant_address_zh |-> None],
     checkbox_flags |-> [CheckboxFlags EXCEPT !["is_av"] = TRUE]]

RecB ==
    [basic_info |-> [cb_report_no |-> TxtY, ast_report_no |-> TxtY,
                     applicant_en |-> TxtY, brand |-> TxtY,
        cns_report_no |-> None, applicant_address_en |-> EmptyStr],
     test_item_particulars |->
        [product_group |-> GroupICT, mobility |-> None,
         classification_of_use |-> <<ORDINARY, Skilled>>,
         supply_connection |-> <<ClassII>>,
         mains_supply |-> None, pollution_degree |-> None],
     series_models |-> <<SeriesModel(ModelM1, Vout9), SeriesModel(ModelM2, Vout9)>>,
     clause_verdicts |-> <<ClauseVerdict(Clause41, VerdictF, TxtY),
                           ClauseVerdict(Clause42, VerdictP, None)>>,
     key_tables |-> [input_tests |-> <<Row2>>, input_test_raw |-> <<Row2, Row1>>],
     factories |-> <<FactoryInfo(FactoryF, AddrA), FactoryInfo(FactoryF, AddrB)>>,
     attachments |-> <<Att1, Att2>>,
     revision_records |-> EmptyList,
     translations |-> [applicant_zh |-> TxtY, applicant_address_zh |-> None],
     checkbox_flags |-> [CheckboxFlags EXCEPT !["is_ict"] = TRUE,
                                              !["is_class_ii"] = TRUE]]

\* optional texts given as "", empty lists, and keys repeated inside the record
RecC ==
    [basic_info |-> [cb_report_no |-> EmptyStr, ast_report_no |-> EmptyStr,
                     applicant_en |-> EmptyStr, brand |-> EmptyStr,
        cns_report_no |-> None, applicant_address_en |-> EmptyStr],
     test_item_particulars |->
        [product_group |-> EmptyStr, mobility |-> EmptyStr,
         classification_of_use |-> EmptyList,
         supply_connection |-> EmptyList,
         mains_supply |-> None, pollution_degree |-> None],
     series_models |-> <<SeriesModel(ModelM2, Vout5), SeriesModel(ModelM2, Vout9),
                         SeriesModel(EmptyStr, Vout5)>>,
     clause_verdicts |-> <<ClauseVerdict(Clause42, VerdictF, TxtX),
                           ClauseVerdict(Clause42, VerdictP, TxtY),
                           ClauseVerdict(EmptyStr, VerdictP, None)>>,
     key_tables |-> [input_tests |-> EmptyList, input_test_raw |-> EmptyList],
     factories |-> <<FactoryInfo(FactoryG, AddrA), FactoryInfo(FactoryG, AddrA),
                     FactoryInfo(EmptyStr, EmptyStr)>>,
     attachments |-> EmptyList,
     revision_records |-> EmptyList,
     translations |-> [applicant_zh |-> EmptyStr, applicant_address_zh |-> None],
     checkbox_flags |-> CheckboxFlags]

RecD ==
    [basic_info |-> [cb_report_no |-> TxtX, ast_report_no |-> None,
                     applicant_en |-> EmptyStr, brand |-> None,
        cns_report_no |-> None, applicant_address_en |-> EmptyStr],
     test_item_particulars |->
        [product_group |-> None, mobility |-> Portable,
         classification_of_use |-> <<Skilled, Ordinary>>,
         supply_connection |-> <<ClassI, ClassII>>,
         mains_supply |-> None, pollution_degree |-> None],
     series_models |-> <<SeriesModel(ModelM2, Vout5)>>,
     clause_verdicts |-> <<ClauseVerdict(Clause42, VerdictF, TxtX)>>,
     key_tables |-> [input_tests |-> <<Row1>>, input_test_raw |-> NoneList],
     factories |-> <<FactoryInfo(EmptyStr, EmptyStr)>>,
     attachments |-> <<Att2, Att1>>,
     revision_records |-> EmptyList,
     translations |-> [applicant_zh |-> None, applicant_address_zh |-> None],
     checkbox_flags |-> [CheckboxFlags EXCEPT !["is_av"] = TRUE,
                                              !["is_portable"] = TRUE]]

FoldPool == {create_empty_schema, RecA, RecB, RecC, RecD}

IdleRuns == <<>>
IdleDoc == <<>>

InitFold ==
    /\ chunks \in [1..MaxChunks -> FoldPool]
    /\ merged = create_empty_schema
    /\ idx = 0
    /\ pc = "fold"
    /\ max_concurrent = 1
    /\ batch_start = 0
    /\ futures = <<>>
    /\ done_order = <<>>
    /\ runs = IdleRuns /\ runs0 = IdleRuns
    /\ old_text = <<>> /\ new_text = <<>> /\ outcome = "none"
    /\ template = IdleDoc /\ doc = IdleDoc /\ expected = <<>> /\ errors = <<>> /\ event = "none"
    /\ user_inputs = NoInputs /\ placeholder_mapping = <<>> /\ xml_content = <<>>
    /\ NoCalls

\* merged = merge_schemas(merged, next record), left to right
MergeNext ==
    /\ pc = "fold"
    /\ idx < Len(chunks)
    /\ merged' = merge_schemas(merged, chunks[idx + 1])
    /\ idx' = idx + 1
    /\ UNCHANGED <<chunks, pc, max_concurrent, batch_start, futures, done_order>>
    /\ UNCHANGED runVars
    /\ UNCHANGED renderVars
    /\ UNCHANGED extraVars

NextFold == MergeNext

SpecFold == InitFold /\ [][NextFold]_vars

(***************************************************************************)
(* Properties of the fold                                                  *)
(***************************************************************************)
\* the scalar fields of a record, by name
ScalarsOf(r) ==
    [cb_report_no |-> r.basic_info.cb_report_no,
     ast_report_no |-> r.basic_info.ast_report_no,
     applicant_en |-> r.basic_info.applicant_en,
     brand |-> r.basic_info.brand,
     product_group |-> r.test_item_particulars.product_group,
     mobility |-> r.test_item_particulars.mobility,
     applicant_zh |-> r.translations.applicant_zh]

ScalarNames == DOMAIN ScalarsOf(create_empty_schema)

IsNonEmpty(v) == v # None /\ v # EmptyStr

\* the folded chunks in which scalar k is non-empty
NonEmptyAt(k) == {i \in 1..idx : IsNonEmpty(ScalarsOf(chunks[i])[k])}

MaxOf(S) == CHOOSE m \in S : \A n \in S : n <= m

\* C4: every scalar field of the merged record is the value of the last
\* folded chunk in which the field is non-empty (its default when there is
\* none); an empty or missing later value never overwrites it.
C4_ScalarLastNonEmptyWins ==
    pc = "fold" =>
        \A k \in ScalarNames :
            IF NonEmptyAt(k) = {}
            THEN ScalarsOf(merged)[k] = ScalarsOf(create_empty_schema)[k]
            ELSE ScalarsOf(merged)[k] = ScalarsOf(chunks[MaxOf(NonEmptyAt(k))])[k]

\* chunks X, empty give X; chunks X, empty, Y give Y
C4_Witness ==
    /\ pc = "fold" /\ idx = 3
    /\ chunks[1].basic_info.brand = TxtX
    /\ ~IsNonEmpty(chunks[2].basic_info.brand)
    /\ chunks[3].basic_info.brand = TxtY
    /\ merged.basic_info.brand = TxtY

\* all entries of a keyed collection of the folded chunks, in chunk order
RECURSIVE AllOf(_, _)
AllOf(field, n) ==
    IF n = 0 THEN <<>> ELSE AllOf(field, n - 1) \o chunks[n][field]

\* the entries with a non-empty key whose key occurs at no earlier position
FirstOccurrences(entries, keyName) ==
    LET keep == {i \in 1..Len(entries) :
                    /\ entries[i][keyName] # EmptyStr
                    /\ \A j \in 1..(i - 1) : entries[j][keyName] # entries[i][keyName]}
        RECURSIVE Pick(_)
        Pick(i) == IF i > Len(entries) THEN <<>>
                   ELSE IF i \in keep THEN <<entries[i]>> \o Pick(i + 1)
                        ELSE Pick(i + 1)
    IN  Pick(1)

\* C5: series models are merged first-occurrence-wins: the merged list holds,
\* for every model key, exactly the entry of the earliest chunk declaring it,
\* and an unseen key is appended after the existing entries.
C5_SeriesFirstWins ==
    pc = "fold" =>
        merged.series_models = FirstOccurrences(AllOf("series_models", idx), "model")

C5_Witness ==
    /\ pc = "fold" /\ idx = 2
    /\ chunks[1].series_models = <<SeriesModel(ModelM1, Vout5)>>
    /\ Len(chunks[2].series_models) >= 1
    /\ chunks[2].series_models[1].model = ModelM1
    /\ chunks[2].series_models[1] # SeriesModel(ModelM1, Vout5)
    /\ merged.series_models = <<SeriesModel(ModelM1, Vout5), SeriesModel(ModelM2, Vout9)>>

\* C6: clause verdicts are merged first-occurrence-wins: a later entry whose
\* clause was already seen is ignored and the earlier verdict and comment stay.
C6_ClauseFirstWins ==
    pc = "fold" =>
        merged.clause_verdicts = FirstOccurrences(AllOf("clause_verdicts", idx), "clause")

\* C8: the unordered list fields are a case-insensitive union: every value of
\* every folded chunk is represented, and no two merged entries are equal
\* when letter case is ignored.
C8_ListCaseInsensitiveUnion ==
    pc = "fold" =>
        \A k \in TipListKeys :
            LET out == merged.test_item_particulars[k]
            IN  /\ \A i \in 1..idx :
                     \A v \in Range(chunks[i].test_item_particulars[k]) :
                        \E e \in Range(out) : ToUpper(e) = ToUpper(v)
                /\ \A a, b \in 1..Len(out) :
                     a # b => ToUpper(out[a]) # ToUpper(out[b])

NoTwoSame(entries, Key(_)) ==
    \A a, b \in 1..Len(entries) : a # b => Key(entries[a]) # Key(entries[b])

ModelKey(m) == m.model
ClauseKey(c) == c.clause
FactoryKey(f) == <<f.name, f.address>>

\* C9: after any sequence of merges from the empty record, series_models has
\* no two entries with the same model, clause_verdicts none with the same
\* clause and factories none with the same (name, address), also when one
\* chunk repeats a key.
C9_KeyedUnique ==
    pc = "fold" =>
        /\ NoTwoSame(merged.series_models, ModelKey)
        /\ NoTwoSame(merged.clause_verdicts, ClauseKey)
        /\ NoTwoSame(merged.factories, FactoryKey)

\* a chunk that repeats keys inside itself has been merged
C9_Witness ==
    /\ pc = "fold" /\ idx >= 1
    /\ \E i \in 1..idx :
          /\ ~NoTwoSame(chunks[i].series_models, ModelKey)
          /\ ~NoTwoSame(chunks[i].clause_verdicts, ClauseKey)
          /\ ~NoTwoSame(chunks[i].factories, FactoryKey)
    /\ Len(merged.series_models) >= 1
    /\ Len(merged.clause_verdicts) >= 1
    /\ Len(merged.factories) >= 2

\* C10: merging the empty record into any record obtained by folding chunks
\* from the empty record changes no field.
C10_EmptyChunkNoOp ==
    pc = "fold" => merge_schemas(merged, create_empty_schema) = merged

\* an empty chunk was folded into a record that holds data in every field
C10_Witness ==
    /\ pc = "fold" /\ idx = 3
    /\ chunks[3] = create_empty_schema
    /\ chunks[1] = RecA /\ chunks[2] = RecB
    /\ merged = merge_schemas(merge_schemas(create_empty_schema, RecA), RecB)
    /\ merged.key_tables.input_test_raw = <<Row2, Row1>>

(***************************************************************************)
(* Chunk extraction pipeline (azure_llm.py)                                *)
(***************************************************************************)
LitAV == <<"A","V">>
LitICT == <<"I","C","T">>
LitTELECOM == <<"T","E","L","E","C","O","M">>
LitORDINARY == <<"O","R","D","I","N","A","R","Y">>
LitSKILLED == <<"S","K","I","L","L","E","D">>
LitINSTRUCTED == <<"I","N","S","T","R","U","C","T","E","D">>
LitCLASS_I == <<"C","L","A","S","S"," ","I">>
LitCLASS_1 == <<"C","L","A","S","S"," ","1">>
LitCLASS_II == <<"C","L","A","S","S"," ","I","I">>
LitCLASS_2 == <<"C","L","A","S","S"," ","2">>
LitCLASS_III == <<"C","L","A","S","S"," ","I","I","I">>
LitCLASS_3 == <<"C","L","A","S","S"," ","3">>
LitPORTABLE == <<"P","O","R","T","A","B","L","E">>
LitSTATIONARY == <<"S","T","A","T","I","O","N","A","R","Y">>
LitFIXED == <<"F","I","X","E","D">>

\* (text or "")
OrEmpty(v) == IF v = None THEN EmptyStr ELSE v

\* some entry of the list, upper-cased, contains one of the literals
AnyEntryHas(entries, lits) ==
    \E i \in 1..Len(entries) : \E lit \in lits : Contains(ToUpper(entries[i]), lit)

InferFlagsClearing(schema) ==
    [schema EXCEPT !.checkbox_flags =
        [f \in FlagNames |->
            f = "is_ordinary" /\ AnyEntryHas(schema.test_item_particulars.classification_of_use,
                                             {LitORDINARY})]]

\* _infer_checkbox_flags: flags are only ever set to True
_infer_checkbox_flags(schema) ==
    LET tip == schema.test_item_particulars
        product_group == ToUpper(OrEmpty(tip.product_group))
        mobility == ToUpper(OrEmpty(tip.mobility))
        group == IF Contains(product_group, LitAV) /\ Contains(product_group, LitICT)
                 THEN "is_av_ict"
                 ELSE IF Contains(product_group, LitAV) THEN "is_av"
                 ELSE IF Contains(product_group, LitICT) THEN "is_ict"
                 ELSE IF Contains(product_group, LitTELECOM) THEN "is_telecom"
                 ELSE "none"
        setTrue ==
            {group}
            \cup (IF AnyEntryHas(tip.classification_of_use, {LitORDINARY})
                  THEN {"is_ordinary"} ELSE {})
            \cup (IF AnyEntryHas(tip.classification_of_use, {LitSKILLED})
                  THEN {"is_skilled"} ELSE {})
            \cup (IF AnyEntryHas(tip.classification_of_use, {LitINSTRUCTED})
                  THEN {"is_instructed"} ELSE {})
            \cup (IF AnyEntryHas(tip.supply_connection, {LitCLASS_I, LitCLASS_1})
                  THEN {"is_class_i"} ELSE {})
            \cup (IF AnyEntryHas(tip.supply_connection, {LitCLASS_II, LitCLASS_2})
                  THEN {"is_class_ii"} ELSE {})
            \cup (IF AnyEntryHas(tip.supply_connection, {LitCLASS_III, LitCLASS_3})
                  THEN {"is_class_iii"} ELSE {})
            \cup (IF Contains(mobility, LitPORTABLE) THEN {"is_portable"} ELSE {})
            \cup (IF Contains(mobility, LitSTATIONARY) THEN {"is_stationary"} ELSE {})
            \cup (IF Contains(mobility, LitFIXED) THEN {"is_fixed"} ELSE {})
    IN  [schema EXCEPT !.checkbox_flags =
            [f \in FlagNames |-> IF f \in setTrue THEN TRUE ELSE schema.checkbox_flags[f]]]

\* partial records as _dict_to_schema builds them from a decoded response:
\* basic_info, test_item_particulars, series_models and clause_verdicts with
\* non-empty keys, and the first ten flags
PartA ==
    [create_empty_schema EXCEPT
        !.basic_info = [cb_report_no |-> TxtX, ast_report_no |-> None,
                        applicant_en |-> TxtX, brand |-> TxtX,
        cns_report_no |-> None, applicant_address_en |-> EmptyStr],
        !.test_item_particulars =
            [product_group |-> GroupAV, mobility |-> Portable,
             classification_of_use |-> <<Ordinary>>,
             supply_connection |-> <<ClassI>>,
         mains_supply |-> None, pollution_degree |-> None],
        !.series_models = <<SeriesModel(ModelM1, Vout5)>>,
        !.clause_verdicts = <<ClauseVerdict(Clause41, VerdictP, TxtX)>>,
        !.checkbox_flags = [CheckboxFlags EXCEPT !["is_av"] = TRUE]]

PartB ==
    [create_empty_schema EXCEPT
        !.basic_info = [cb_report_no |-> TxtY, ast_report_no |-> None,
                        applicant_en |-> EmptyStr, brand |-> None,
        cns_report_no |-> None, applicant_address_en |-> EmptyStr],
        !.test_item_particulars =
            [product_group |-> GroupICT, mobility |-> None,
             classification_of_use |-> <<ORDINARY, Skilled>>,
             supply_connection |-> <<ClassII>>,
         mains_supply |-> None, pollution_degree |-> None],
        !.series_models = <<SeriesModel(ModelM1, Vout9), SeriesModel(ModelM2, Vout9)>>,
        !.clause_verdicts = <<ClauseVerdict(Clause41, VerdictF, TxtY),
                              ClauseVerdict(Clause42, VerdictP, None)>>,
        !.checkbox_flags = [CheckboxFlags EXCEPT !["is_ict"] = TRUE,
                                                 !["is_class_iii"] = TRUE]]

PartC ==
    [create_empty_schema EXCEPT
        !.checkbox_flags = [CheckboxFlags EXCEPT !["is_skilled"] = TRUE,
                                                 !["is_telecom"] = TRUE]]

\* create_empty_schema is what a chunk with an undecodable response yields
PartPool == {create_empty_schema, PartA, PartB, PartC}

Init ==
    /\ \E n \in 1..MaxChunks : chunks \in [1..n -> PartPool]
    /\ max_concurrent \in 1..MaxConcurrent
    /\ merged = create_empty_schema
    /\ idx = 0
    /\ pc = "batch"
    /\ batch_start = 0
    /\ futures = [i \in DOMAIN chunks |-> "idle"]
    /\ done_order = <<>>
    /\ runs = IdleRuns /\ runs0 = IdleRuns
    /\ old_text = <<>> /\ new_text = <<>> /\ outcome = "none"
    /\ template = IdleDoc /\ doc = IdleDoc /\ expected = <<>> /\ errors = <<>> /\ event = "none"
    /\ user_inputs = NoInputs /\ placeholder_mapping = <<>> /\ xml_content = <<>>
    /\ NoCalls

total_chunks == Len(chunks)

Min(a, b) == IF a < b THEN a ELSE b

\* a scheduler that submits every remaining chunk at once
BatchOfRemaining(start) ==
    [k \in 1..(total_chunks - start) |-> start + k]

\* chunk indexes (1-based) of the wave that starts at batch_start
BatchOf(start) ==
    [k \in 1..(Min(start + max_concurrent, total_chunks) - start) |-> start + k]

\* for batch_start in range(0, total_chunks, max_concurrent): submit every
\* chunk of the wave to the executor, then await asyncio.gather
StartWave ==
    /\ pc = "batch"
    /\ batch_start < total_chunks
    /\ futures' = [i \in DOMAIN futures |->
                      IF i \in Range(BatchOf(batch_start)) THEN "running" ELSE futures[i]]
    /\ pc' = "gather"
    /\ UNCHANGED <<chunks, merged, idx, max_concurrent, batch_start, done_order>>
    /\ UNCHANGED runVars
    /\ UNCHANGED renderVars
    /\ UNCHANGED extraVars

\* a worker thread returns from _process_chunk
ChunkReturns(i) ==
    /\ pc = "gather"
    /\ futures[i] = "running"
    /\ futures' = [futures EXCEPT ![i] = "done"]
    /\ done_order' = Append(done_order, i)
    /\ UNCHANGED <<chunks, merged, idx, pc, max_concurrent, batch_start>>
    /\ UNCHANGED runVars
    /\ UNCHANGED renderVars
    /\ UNCHANGED extraVars

\* _process_chunk raises (the call failed after its retries)
ChunkRaises(i) ==
    /\ pc = "gather"
    /\ futures[i] = "running"
    /\ futures' = [futures EXCEPT ![i] = "failed"]
    /\ done_order' = Append(done_order, i)
    /\ UNCHANGED <<chunks, merged, idx, pc, max_concurrent, batch_start>>
    /\ UNCHANGED runVars
    /\ UNCHANGED renderVars
    /\ UNCHANGED extraVars

GatherAsCompleted(batch, order) ==
    SelectSeq(order, LAMBDA i : i \in Range(batch))

\* asyncio.gather(*futures, return_exceptions=True): the results in the order
\* of the futures list, whatever the order of completion
GatherResults(batch, order) == batch

RECURSIVE MergeResultsAbort(_, _)
MergeResultsAbort(acc, results) ==
    IF results = <<>> THEN acc
    ELSE IF futures[Head(results)] = "failed" THEN acc
         ELSE MergeResultsAbort(merge_schemas(acc, chunks[Head(results)]), Tail(results))

\* for i, result in enumerate(results): an exception is skipped, a record is
\* merged into merged_schema
RECURSIVE MergeResults(_, _)
MergeResults(acc, results) ==
    IF results = <<>> THEN acc
    ELSE IF futures[Head(results)] = "failed"
         THEN MergeResults(acc, Tail(results))
         ELSE MergeResults(merge_schemas(acc, chunks[Head(results)]), Tail(results))

\* gather returns when every call of the wave has returned or raised
GatherAndMerge ==
    /\ pc = "gather"
    /\ \A i \in Range(BatchOf(batch_start)) : futures[i] \in {"done", "failed"}
    /\ merged' = MergeResults(merged, GatherResults(BatchOf(batch_start), done_order))
    /\ batch_start' = batch_start + max_concurrent
    /\ pc' = "batch"
    /\ UNCHANGED <<chunks, idx, max_concurrent, futures, done_order>>
    /\ UNCHANGED runVars
    /\ UNCHANGED renderVars
    /\ UNCHANGED extraVars

\* Step 3: merged_schema = _infer_checkbox_flags(merged_schema)
InferFlags ==
    /\ pc = "batch"
    /\ batch_start >= total_chunks
    /\ merged' = _infer_checkbox_flags(merged)
    /\ pc' = "translate"
    /\ UNCHANGED <<chunks, idx, max_concurrent, batch_start, futures, done_order>>
    /\ UNCHANGED runVars
    /\ UNCHANGED renderVars
    /\ UNCHANGED extraVars

\* Step 4: _translate_to_chinese replaces schema.translations: by
\* Translations() when nothing is to be translated or the call fails, else
\* by what the translation response carries
Translate ==
    /\ pc = "translate"
    /\ \E zh \in {None, TxtX} :
          /\ (merged.basic_info.applicant_en = EmptyStr => zh = None)
          /\ merged' = [merged EXCEPT !.translations = [applicant_zh |-> zh, applicant_address_zh |-> None]]
    /\ pc' = "done"
    /\ UNCHANGED <<chunks, idx, max_concurrent, batch_start, futures, done_order>>
    /\ UNCHANGED runVars
    /\ UNCHANGED renderVars
    /\ UNCHANGED extraVars

Next ==
    \/ StartWave
    \/ \E i \in DOMAIN futures : ChunkReturns(i)
    \/ \E i \in DOMAIN futures : ChunkRaises(i)
    \/ GatherAndMerge
    \/ InferFlags
    \/ Translate

Spec == Init /\ [][Next]_vars

(***************************************************************************)
(* Properties of the extraction pipeline                                   *)
(***************************************************************************)
\* the fold, in ascending chunk index, of the partial records of the first n
\* chunks whose call returned
RECURSIVE FoldReturned(_)
FoldReturned(n) ==
    IF n = 0 THEN create_empty_schema
    ELSE IF futures[n] = "done"
         THEN merge_schemas(FoldReturned(n - 1), chunks[n])
         ELSE FoldReturned(n - 1)

\* the records of the chunks of a wave whose call returned, merged into acc
\* in ascending chunk index
RECURSIVE FoldWave(_, _, _)
FoldWave(acc, from, to) ==
    IF from > to THEN acc
    ELSE FoldWave(IF futures[from] = "done" THEN merge_schemas(acc, chunks[from]) ELSE acc,
                  from + 1, to)

\* C3: every wave folds its returned partial records into the merged record
\* in ascending chunk index, and the record the merge loop ends with is the
\* fold of all returned partial records in ascending chunk index, whatever
\* the order in which the concurrent calls completed.
C3_MergeInChunkOrder ==
    /\ [][(pc = "gather" /\ pc' = "batch") =>
             merged' = FoldWave(merged, batch_start + 1,
                                Min(batch_start + max_concurrent, total_chunks))]_vars
    /\ [](pc = "translate" =>
             merged = _infer_checkbox_flags(FoldReturned(total_chunks)))

\* chunk 2 completed before chunk 1 and the two disagree on a scalar
C3_Witness ==
    /\ pc = "translate"
    /\ Len(done_order) >= 2 /\ done_order[1] = 2 /\ done_order[2] = 1
    /\ futures[1] = "done" /\ futures[2] = "done"
    /\ chunks[1] = PartA /\ chunks[2] = PartB
    /\ total_chunks = 2
    /\ merged.basic_info.cb_report_no = TxtY

\* C7: a flag that is true in the partial record of any chunk whose call
\* returned is true in the final record, for every ordering of the chunks,
\* and no step changes a flag of the merged record from true to false.
C7_FlagMonotonic ==
    /\ [][\A f \in FlagNames :
             merged.checkbox_flags[f] => merged'.checkbox_flags[f]]_vars
    /\ [](pc = "done" =>
             \A i \in DOMAIN chunks :
                futures[i] = "done" =>
                   \A f \in FlagNames :
                      chunks[i].checkbox_flags[f] => merged.checkbox_flags[f])

\* a flag set by an earlier chunk only, with a later chunk leaving it false
C7_Witness ==
    /\ pc = "done"
    /\ total_chunks = 3
    /\ chunks[1] = PartC /\ chunks[2] = PartA /\ chunks[3] = PartB
    /\ \A i \in 1..3 : futures[i] = "done"
    /\ merged.checkbox_flags["is_skilled"]
    /\ merged.checkbox_flags["is_telecom"]
    /\ merged.checkbox_flags["is_av"]
    /\ merged.checkbox_flags["is_class_iii"]

\* a chunk yields a usable partial record: its call returned and the record
\* is not the all-empty one
Usable(i) == futures[i] = "done" /\ chunks[i] # create_empty_schema

\* C11: when no chunk yields a usable partial record the extraction ends in
\* a hard error: it returns a record only if some chunk was usable.
C11_AllFailedIsError ==
    pc = "done" => \E i \in DOMAIN chunks : Usable(i)

\* every call raised, and the extraction returned the empty record
C11_AllFailedReturned ==
    /\ pc = "done"
    /\ total_chunks = 2
    /\ \A i \in DOMAIN chunks : futures[i] = "failed"
    /\ merged = create_empty_schema

\* the fold, in ascending chunk index, of the usable partial records only
RECURSIVE FoldUsable(_)
FoldUsable(n) ==
    IF n = 0 THEN create_empty_schema
    ELSE IF Usable(n)
         THEN merge_schemas(FoldUsable(n - 1), chunks[n])
         ELSE FoldUsable(n - 1)

\* C12: a chunk whose call raises, or that yields the all-empty record,
\* leaves the merged record as it was, and every other chunk of the same
\* and of later waves is still merged: the step in which a call raises does
\* not change the merged record, and the record the merge loop ends with
\* is the fold of exactly the usable partial records.
C12_FailedChunkSkipped ==
    /\ [][(\E i \in DOMAIN futures : futures[i] = "running" /\ futures'[i] = "failed")
             => merged' = merged]_vars
    /\ [](pc = "translate" =>
             merged = _infer_checkbox_flags(FoldUsable(total_chunks)))

\* the first chunk raised, the second of the same wave and the third of the
\* next wave were merged
C12_Witness ==
    /\ pc = "translate"
    /\ total_chunks = 3 /\ max_concurrent = 2
    /\ futures[1] = "failed" /\ futures[2] = "done" /\ futures[3] = "done"
    /\ chunks[1] = PartB /\ chunks[2] = PartA /\ chunks[3] = PartB
    /\ merged.basic_info.cb_report_no = TxtY
    /\ merged.basic_info.applicant_en = TxtX

\* the chunk calls submitted to the executor and not yet returned or raised
Outstanding == {i \in DOMAIN futures : futures[i] = "running"}

\* the wave (0-based) chunk i belongs to
WaveOf(i) == (i - 1) \div max_concurrent

\* C22: chunk calls are issued in waves of at most max_concurrent chunks: at
\* no time are more than max_concurrent calls outstanding, and while a call
\* of a wave is outstanding every call of every earlier wave has returned
\* or raised and no call of a later wave has started
C22_WaveScheduling ==
    /\ Cardinality(Outstanding) <= max_concurrent
    /\ \A i \in Outstanding : \A j \in DOMAIN futures :
          /\ WaveOf(j) < WaveOf(i) => futures[j] \in {"done", "failed"}
          /\ WaveOf(j) > WaveOf(i) => futures[j] = "idle"

\* the third chunk is outstanding in the second wave, after a first wave of
\* two calls of which one raised
C22_Witness ==
    /\ total_chunks = 3 /\ max_concurrent = 2
    /\ futures[1] = "failed" /\ futures[2] = "done"
    /\ futures[3] = "running"

(***************************************************************************)
(* The chunk phase with the attempts of each call (_call_llm, tenacity)    *)
(***************************************************************************)
\* @retry(stop=stop_after_attempt(3), ...)
MAX_ATTEMPTS == 3

\* a stop condition that allows one attempt more
StopOneLater(attempt_number) == attempt_number >= MAX_ATTEMPTS + 1

\* stop_after_attempt(3): true when the attempt just made was the third
stop_after_attempt(attempt_number) == attempt_number >= MAX_ATTEMPTS

RetryPool == {create_empty_schema, PartC}

InitRetry ==
    /\ \E n \in 1..MaxChunks : chunks \in [1..n -> RetryPool]
    /\ max_concurrent \in 1..MaxConcurrent
    /\ merged = create_empty_schema
    /\ idx = 0
    /\ pc = "batch"
    /\ batch_start = 0
    /\ futures = [i \in DOMAIN chunks |-> "idle"]
    /\ done_order = <<>>
    /\ attempts = [i \in DOMAIN chunks |-> 0]
    /\ _token_tracker = TokenUsageTracker /\ extractions = <<>>
    /\ runs = IdleRuns /\ runs0 = IdleRuns
    /\ old_text = <<>> /\ new_text = <<>> /\ outcome = "none"
    /\ template = IdleDoc /\ doc = IdleDoc /\ expected = <<>> /\ errors = <<>> /\ event = "none"
    /\ user_inputs = NoInputs /\ placeholder_mapping = <<>> /\ xml_content = <<>>

\* an attempt of _call_llm returns the response: _process_chunk returns
AttemptReturns(i) ==
    /\ pc = "gather"
    /\ futures[i] = "running"
    /\ attempts' = [attempts EXCEPT ![i] = @ + 1]
    /\ futures' = [futures EXCEPT ![i] = "done"]
    /\ done_order' = Append(done_order, i)
    /\ UNCHANGED <<chunks, merged, idx, pc, max_concurrent, batch_start>>
    /\ UNCHANGED runVars
    /\ UNCHANGED renderVars
    /\ UNCHANGED <<user_inputs, placeholder_mapping, xml_content,
                   _token_tracker, extractions>>

\* an attempt of _call_llm raises: when the stop condition holds the retry
\* decorator raises RetryError out of _process_chunk, otherwise it waits
\* (wait_exponential) and the call is attempted again
AttemptRaises(i) ==
    /\ pc = "gather"
    /\ futures[i] = "running"
    /\ attempts' = [attempts EXCEPT ![i] = @ + 1]
    /\ IF stop_after_attempt(attempts[i] + 1)
       THEN /\ futures' = [futures EXCEPT ![i] = "failed"]
            /\ done_order' = Append(done_order, i)
       ELSE UNCHANGED <<futures, done_order>>
    /\ UNCHANGED <<chunks, merged, idx, pc, max_concurrent, batch_start>>
    /\ UNCHANGED runVars
    /\ UNCHANGED renderVars
    /\ UNCHANGED <<user_inputs, placeholder_mapping, xml_content,
                   _token_tracker, extractions>>

NextRetry ==
    \/ StartWave
    \/ \E i \in DOMAIN futures : AttemptReturns(i)
    \/ \E i \in DOMAIN futures : AttemptRaises(i)
    \/ GatherAndMerge
    \/ InferFlags
    \/ Translate

SpecRetry == InitRetry /\ [][NextRetry]_vars

\* the executor runs every submitted call, an attempt returns or raises,
\* and the event loop resumes the coroutine: some enabled step is taken
SpecRetryFair == SpecRetry /\ WF_vars(NextRetry)

\* C23: the call of a chunk is attempted at most three times; a call that
\* has been attempted three times is no longer outstanding, a chunk whose
\* call failed is never attempted again, and the chunk phase comes to its
\* end whatever the attempts do
C23_BoundedRetry ==
    /\ [](\A i \in DOMAIN attempts :
             /\ attempts[i] <= MAX_ATTEMPTS
             /\ (futures[i] = "running" => attempts[i] < MAX_ATTEMPTS)
             /\ (futures[i] = "failed" => attempts[i] = MAX_ATTEMPTS))
    /\ [][\A i \in DOMAIN attempts :
             futures[i] \in {"done", "failed"} => attempts'[i] = attempts[i]]_vars
    /\ <>(pc = "batch" /\ batch_start >= total_chunks)

\* the chunk phase ended with the call of the first chunk failed at its
\* third attempt and the call of the second returned at its second
C23_Witness ==
    /\ pc = "batch" /\ batch_start >= total_chunks
    /\ total_chunks = 2
    /\ attempts = <<3, 2>>
    /\ futures = <<"failed", "done">>

(***************************************************************************)
(* Run-span substitution (word_filler.py)                                  *)
(***************************************************************************)
\* a replacement that leaves the text as it is
ReplaceNothing(s, old, new) == s

\* str.replace(old, new, 1)
ReplaceFirst(s, old, new) ==
    LET at == Find(s, old)
    IN  IF at < 0 THEN s
        ELSE Slice(s, 0, at) \o new \o Slice(s, at + Len(old), Len(s))

\* run_ranges: the start and the end offset of run k in the joined text
RunStart(rs, k) == Len(Join(SubSeq(rs, 1, k - 1)))
RunEnd(rs, k) == RunStart(rs, k) + Len(rs[k])

\* run_ranges.index((a, b, run j)), 0 standing for the ValueError of a
\* tuple that is not in the list; two run objects are equal when they are
\* the same run
RangeIndex(rs, a, b, j) ==
    IF \E i \in 1..Len(rs) : RunStart(rs, i) = a /\ RunEnd(rs, i) = b /\ i = j
    THEN CHOOSE i \in 1..Len(rs) : RunStart(rs, i) = a /\ RunEnd(rs, i) = b /\ i = j
    ELSE 0

\* the inner loop that clears the runs after run k; its loop variables
\* `_, _, other_run` leave `_` bound to the end offset of other_run, so the
\* tuple it looks up is (end, end, other_run)
RECURSIVE ClearFollowing(_, _, _, _)
ClearFollowing(rs, k, j, cur) ==
    IF j > Len(rs) THEN [ret |-> "True", runs |-> cur]
    ELSE IF j = k THEN ClearFollowing(rs, k, j + 1, cur)
    ELSE LET other == RangeIndex(rs, RunEnd(rs, j), RunEnd(rs, j), j)
             this  == RangeIndex(rs, RunStart(rs, k), RunEnd(rs, k), k)
         IN  IF other = 0 THEN [ret |-> "ValueError", runs |-> cur]
             ELSE IF other > this
                  THEN ClearFollowing(rs, k, j + 1, [cur EXCEPT ![j] = <<>>])
                  ELSE ClearFollowing(rs, k, j + 1, cur)

\* the redistribution loop over run_ranges, from run k on; cur holds the
\* run texts as assigned so far
RECURSIVE Redistribute(_, _, _, _, _)
Redistribute(rs, old, new, k, cur) ==
    IF k > Len(rs) THEN [ret |-> "True", runs |-> cur]
    ELSE
    LET full_text == Join(rs)
        start_idx == Find(full_text, old)
        end_idx   == start_idx + Len(old)
        new_full_text == Slice(full_text, 0, start_idx) \o new
                            \o Slice(full_text, end_idx, Len(full_text))
        run_start == RunStart(rs, k)
        run_end   == RunEnd(rs, k)
        offset    == Len(new) - Len(old)
    IN  IF run_end <= start_idx
        THEN Redistribute(rs, old, new, k + 1, cur)
        ELSE IF run_start >= end_idx
        THEN Redistribute(rs, old, new, k + 1,
                 [cur EXCEPT ![k] = Slice(new_full_text, run_start + offset,
                                          run_end + offset)])
        ELSE IF run_start <= start_idx /\ run_end >= end_idx
        THEN Redistribute(rs, old, new, k + 1,
                 [cur EXCEPT ![k] = ReplaceFirst(cur[k], old, new)])
        ELSE IF run_start <= start_idx /\ start_idx < run_end
        THEN ClearFollowing(rs, k, 1,
                 [cur EXCEPT ![k] = Slice(new_full_text, run_start,
                                          Len(new_full_text))])
        ELSE IF start_idx < run_start /\ run_start < end_idx
        THEN Redistribute(rs, old, new, k + 1, [cur EXCEPT ![k] = <<>>])
        ELSE Redistribute(rs, old, new, k + 1, cur)

\* the result and the run texts it leaves: ret is "True", "False" or the
\* exception raised
replace_text_in_runs(rs, old, new) ==
    IF rs = <<>> THEN [ret |-> "False", runs |-> rs]
    ELSE IF ~Contains(Join(rs), old) THEN [ret |-> "False", runs |-> rs]
    ELSE Redistribute(rs, old, new, 1, rs)

(***************************************************************************)
(* Specification of one replace_text_in_runs call                          *)
(***************************************************************************)
TokenM == <<"{","{","m","}","}">>
ValueShort == <<"P">>
ValueLong == <<"P","A","-","1","2","0","W">>
RunTexts == {TokenM,
             <<"a">> \o TokenM,
             TokenM \o <<"b">>,
             <<"a">> \o TokenM \o <<"b">>,
             TokenM \o <<"-">> \o TokenM,
             <<"a","{","m","}","b">>}
RunValues == {EmptyStr, ValueShort, ValueLong}

\* every way of cutting text into n runs, empty runs included
Splits(text, n) ==
    LET Cuts == {c \in [0..n -> 0..Len(text)] :
                    /\ c[0] = 0
                    /\ c[n] = Len(text)
                    /\ \A i \in 1..n : c[i - 1] <= c[i]}
    IN  {[k \in 1..n |-> Slice(text, c[k - 1], c[k])] : c \in Cuts}

InitRuns ==
    /\ pc = "call"
    /\ \E text \in RunTexts : \E n \in 1..MaxRuns : runs0 \in Splits(text, n)
    /\ runs = runs0
    /\ old_text = TokenM
    /\ new_text \in RunValues
    /\ outcome = "none"
    /\ chunks = <<>> /\ merged = create_empty_schema /\ idx = 0
    /\ max_concurrent = 1 /\ batch_start = 0
    /\ futures = <<>> /\ done_order = <<>>
    /\ template = IdleDoc /\ doc = IdleDoc /\ expected = <<>> /\ errors = <<>> /\ event = "none"
    /\ user_inputs = NoInputs /\ placeholder_mapping = <<>> /\ xml_content = <<>>
    /\ NoCalls

ReplaceInRuns ==
    /\ pc = "call"
    /\ LET r == replace_text_in_runs(runs, old_text, new_text)
       IN  /\ runs' = r.runs
           /\ outcome' = r.ret
           /\ pc' = IF r.ret = "ValueError" THEN "raised" ELSE "returned"
    /\ UNCHANGED <<chunks, merged, idx, max_concurrent, batch_start, futures,
                   done_order, runs0, old_text, new_text, template, doc, expected, errors, event>>
    /\ UNCHANGED extraVars

NextRuns == ReplaceInRuns

SpecRuns == InitRuns /\ [][NextRuns]_vars

\* C2: when the joined run text holds exactly one occurrence of the token,
\* however the text is cut into runs, the call returns true without raising
\* and the joined run text afterwards is the original text with the token
\* replaced by the value.
C2_RunRoundTrip ==
    (pc \in {"returned", "raised"} /\ Occurrences(Join(runs0), old_text) = 1) =>
        /\ outcome = "True"
        /\ Join(runs) = ReplaceFirst(Join(runs0), old_text, new_text)

\* the token cut inside its name: the call raises and leaves a doubled tail
C2_SplitRaises ==
    /\ pc = "raised"
    /\ runs0 = << <<"{","{">>, <<"m">>, <<"}","}">> >>
    /\ new_text = ValueLong
    /\ outcome = "ValueError"
    /\ runs = << ValueLong, <<"m">>, <<"}","}">> >>

\* what does hold: a token lying inside a single run is replaced in place
C2_WholeInOneRun ==
    (pc \in {"returned", "raised"}
        /\ \E k \in 1..Len(runs0) : Contains(runs0[k], old_text)
        /\ Occurrences(Join(runs0), old_text) = 1) =>
        /\ outcome = "True"
        /\ Join(runs) = ReplaceFirst(Join(runs0), old_text, new_text)
        /\ \A k \in 1..Len(runs0) :
              ~Contains(runs0[k], old_text) => runs[k] = runs0[k]

\* C26: when the first occurrence of the literal lies within one run, the
\* call returns true, keeps the number of runs, gives that run its text with
\* the one occurrence replaced and leaves every other run as it was; when
\* the literal does not occur the call returns false and changes no run
C26_ContainedReplaceFrame ==
    pc # "call" =>
        LET at == Find(Join(runs0), old_text)
            to == at + Len(old_text)
        IN  /\ at < 0 => (outcome = "False" /\ runs = runs0)
            /\ \A k \in 1..Len(runs0) :
                  (at >= 0 /\ RunStart(runs0, k) <= at /\ RunEnd(runs0, k) >= to)
                     => /\ outcome = "True"
                        /\ Len(runs) = Len(runs0)
                        /\ runs[k] = Slice(runs0[k], 0, at - RunStart(runs0, k))
                                        \o new_text
                                        \o Slice(runs0[k], to - RunStart(runs0, k),
                                                 Len(runs0[k]))
                        /\ \A j \in 1..Len(runs0) : j # k => runs[j] = runs0[j]

\* the literal was replaced inside the middle run of three by a longer
\* value, with text in the runs before and after it
C26_Witness ==
    /\ pc = "returned" /\ outcome = "True"
    /\ runs0 = << <<"a">>, TokenM, <<"b">> >>
    /\ new_text = ValueLong
    /\ runs = << <<"a">>, ValueLong, <<"b">> >>

(***************************************************************************)
(* Rendering and post-render validation (word_filler.py, main.py)          *)
(***************************************************************************)
MaxParagraphs == 2 \* number of body paragraphs of a template

Open == <<"{","{">>
Close == <<"}","}">>
KeyReportNo == <<"r","e","p","o","r","t","_","n","o">>
KeyCbReportNo == <<"c","b","_","r","e","p","o","r","t","_","n","o">>
KeyAstReportNo == <<"a","s","t","_","r","e","p","o","r","t","_","n","o">>
KeyHeaderReportNo == <<"h","e","a","d","e","r","_","r","e","p","o","r","t","_","n","o">>
KeyApplicantEn == <<"a","p","p","l","i","c","a","n","t","_","e","n">>
KeyModelMain == <<"m","o","d","e","l","_","m","a","i","n">>
KeyMainModel == <<"m","a","i","n","_","m","o","d","e","l">>
KeyBrand == <<"b","r","a","n","d">>
LitMC601 == <<"M","C","-","6","0","1">>
LitOldAst == <<"A","S","T","-","B","-","2","5","1","2","0","5","2","2","-","0","0","0">>
LitInputTest ==
    <<"{","{","T","A","B","L","E","_","B","2","_","5","_","I","N","P","U","T","_","T",
      "E","S","T","}","}">>
LitAbnormal ==
    <<"{","{","T","A","B","L","E","_","B","3","_","B","4","_","A","B","N","O","R","M",
      "A","L","_","F","A","U","L","T","}","}">>
LitBlockInputTest ==
    <<"{","{","#","B","L","O","C","K",":","T","A","B","L","E","_","B","2","_","5","_",
      "I","N","P","U","T","_","T","E","S","T","}","}">>
LitBlockAbnormal ==
    <<"{","{","#","B","L","O","C","K",":","T","A","B","L","E","_","B","3","_","B","4",
      "_","A","B","N","O","R","M","A","L","_","F","A","U","L","T","}","}">>
LitAuthor == <<"{","{","r","e","p","o","r","t","_","a","u","t","h","o","r","}","}">>
LitSigner == <<"{","{","r","e","p","o","r","t","_","s","i","g","n","e","r","}","}">>
LitFactoryBlock ==
    <<"{","{","F","A","C","T","O","R","Y","_","T","A","B","L","E","_","B","L","O","C",
      "K","}","}">>
LitAttachmentBlock ==
    <<"{","{","A","T","T","A","C","H","M","E","N","T","_","L","I","S","T","_","B","L",
      "O","C","K","}","}">>
LitBlockFactory ==
    <<"{","{","#","B","L","O","C","K",":","F","A","C","T","O","R","Y","_","T","A","B",
      "L","E","_","B","L","O","C","K","}","}">>
LitBlockAttachment ==
    <<"{","{","#","B","L","O","C","K",":","A","T","T","A","C","H","M","E","N","T","_",
      "L","I","S","T","_","B","L","O","C","K","}","}">>
LitOldCb == <<"2","0","2","5","1","1","2","0","5","8","8","5","5","9","7","1","-","0","0">>
LitOldDk == <<"D","K","-","1","7","4","0","5","2","-","U","L">>
LitDK == <<"D","K","-">>
LitOldAstTail == <<"2","5","1","2","0","5","2","2","-","0","0","0">>
LitASTB == <<"A","S","T","-","B">>
TxtBrandToken == <<"{","{","b","r","a","n","d","}","}">>
TxtBrandSpaced == <<"{","{"," ","b","r","a","n","d"," ","}","}">>
TxtHeaderToken ==
    <<"{","{","h","e","a","d","e","r","_","r","e","p","o","r","t","_","n","o","}","}">>
TxtUnknownToken == <<"{","{","z","z","}","}">>
TxtLegacy == <<"D","K","-","1">>

Newline == "\n"
Whitespace == {" ", "\t", "\n"}

\* str.strip()
RECURSIVE Strip(_)
Strip(s) ==
    IF s = <<>> THEN s
    ELSE IF Head(s) \in Whitespace THEN Strip(Tail(s))
    ELSE IF s[Len(s)] \in Whitespace THEN Strip(SubSeq(s, 1, Len(s) - 1))
    ELSE s

\* str.replace(pat, rep): every occurrence, left to right
RECURSIVE ReplaceAll(_, _, _)
ReplaceAll(s, pat, rep) ==
    LET at == Find(s, pat)
    IN  IF pat = <<>> \/ at < 0 THEN s
        ELSE Slice(s, 0, at) \o rep
                \o ReplaceAll(Slice(s, at + Len(pat), Len(s)), pat, rep)

\* "\n".join(texts)
RECURSIVE JoinLines(_)
JoinLines(texts) ==
    IF texts = <<>> THEN <<>>
    ELSE IF Len(texts) = 1 THEN texts[1]
    ELSE texts[1] \o <<Newline>> \o JoinLines(Tail(texts))

\* the keys and key suffixes of the placeholder mapping
KeyCnsReportNo == <<"c","n","s","_","r","e","p","o","r","t","_","n","o">>
KeyApplicantAddressEn == <<"a","p","p","l","i","c","a","n","t","_","a","d","d","r","e","s","s","_","e","n">>
KeyApplicantZh == <<"a","p","p","l","i","c","a","n","t","_","z","h">>
KeyApplicantName == <<"a","p","p","l","i","c","a","n","t","_","n","a","m","e">>
KeyApplicantAddressZh == <<"a","p","p","l","i","c","a","n","t","_","a","d","d","r","e","s","s","_","z","h">>
KeyApplicantAddress == <<"a","p","p","l","i","c","a","n","t","_","a","d","d","r","e","s","s">>
KeySeriesModel == <<"s","e","r","i","e","s","_","m","o","d","e","l">>
KeyModelList == <<"m","o","d","e","l","_","l","i","s","t">>
KeyReportAuthor == <<"r","e","p","o","r","t","_","a","u","t","h","o","r">>
KeyReportSigner == <<"r","e","p","o","r","t","_","s","i","g","n","e","r">>
KeyRev == <<"r","e","v">>
SuffixVout == <<"_","v","o","u","t">>
SuffixItem == <<"_","i","t","e","m">>
SuffixDate == <<"_","d","a","t","e">>
SuffixReportNo == <<"_","r","e","p","o","r","t","_","n","o">>
SuffixDesc == <<"_","d","e","s","c">>
CommaSpace == <<",", " ">>

MAX_SERIES_MODELS == 2 \* 60 in the source: the series_model_N placeholders
MaxRevisions == 5      \* revision_records[:5] and range(.., 6)

DecimalDigits == <<"0","1","2","3","4","5","6","7","8","9">>

\* str(i) of a natural number
RECURSIVE Str(_)
Str(i) ==
    IF i < 10 THEN <<DecimalDigits[i + 1]>>
    ELSE Str(i \div 10) \o <<DecimalDigits[(i % 10) + 1]>>

\* sep.join(texts)
RECURSIVE JoinWith(_, _)
JoinWith(sep, texts) ==
    IF texts = <<>> THEN <<>>
    ELSE IF Len(texts) = 1 THEN texts[1]
    ELSE texts[1] \o sep \o JoinWith(sep, Tail(texts))

RevisionRecord(item, date, report_no, description) ==
    [item |-> item, date |-> date, report_no |-> report_no,
     description |-> description]

\* f"series_model_{i}", f"series_model_{i}_vout", f"rev{i}_item", ...
SeriesKey(i) == KeySeriesModel \o <<"_">> \o Str(i)
SeriesVoutKey(i) == SeriesKey(i) \o SuffixVout
RevKey(i, suffix) == KeyRev \o Str(i) \o suffix
RevSuffixes == {SuffixItem, SuffixDate, SuffixReportNo, SuffixDesc}

\* the keys build_placeholder_mapping assigns unconditionally
ScalarKeys == {KeyReportNo, KeyCbReportNo, KeyAstReportNo, KeyHeaderReportNo,
               KeyCnsReportNo, KeyApplicantEn, KeyApplicantAddressEn,
               KeyModelMain, KeyMainModel, KeyBrand,
               KeyApplicantZh, KeyApplicantName, KeyApplicantAddressZh,
               KeyApplicantAddress, KeySeriesModel, KeyModelList}

\* a mutation of SeriesFilled: the fill loop starts one index too late
SeriesFilledLate(schema) ==
    (Len(schema.series_models) + 2)..MAX_SERIES_MODELS

\* the indexes of: for i, model in enumerate(series_models[:MAX_SERIES_MODELS], start=1)
SeriesSliced(schema) == 1..Min(Len(schema.series_models), MAX_SERIES_MODELS)
\* the indexes of: for i in range(len(series_models) + 1, MAX_SERIES_MODELS + 1)
SeriesFilled(schema) == (Len(schema.series_models) + 1)..MAX_SERIES_MODELS
\* the indexes of: for i, rev in enumerate(revision_records[:5], start=1)
RevSliced(schema) == 1..Min(Len(schema.revision_records), MaxRevisions)
\* the indexes of: for i in range(len(revision_records) + 1, 6)
RevFilled(schema) == (Len(schema.revision_records) + 1)..MaxRevisions

HasModel(m) == OrEmpty(m.model) # EmptyStr

RevField(rev, suffix) ==
    CASE suffix = SuffixItem -> OrEmpty(rev.item)
      [] suffix = SuffixDate -> OrEmpty(rev.date)
      [] suffix = SuffixReportNo -> OrEmpty(rev.report_no)
      [] suffix = SuffixDesc -> OrEmpty(rev.description)

\* build_placeholder_mapping, on the fields the model carries: the keys are
\* those the assignments and the four loops create
build_placeholder_mapping(schema) ==
    LET bi == schema.basic_info
        trans == schema.translations
        ast_report_no == IF OrEmpty(bi.ast_report_no) # EmptyStr
                         THEN bi.ast_report_no
                         ELSE OrEmpty(bi.cb_report_no)
        all_models == SelectSeq(schema.series_models, HasModel)
        series_model == JoinWith(CommaSpace,
                                 [k \in 1..Len(all_models) |-> all_models[k].model])
        sliced == SeriesSliced(schema)
        series == sliced \cup SeriesFilled(schema)
        rsliced == RevSliced(schema)
        revs == rsliced \cup RevFilled(schema)
        keys == ScalarKeys
                \cup {SeriesKey(i) : i \in series}
                \cup {SeriesVoutKey(i) : i \in series}
                \cup {RevKey(i, sfx) : i \in revs, sfx \in RevSuffixes}
    IN  [k \in keys |->
            CASE k = KeyReportNo -> OrEmpty(bi.cb_report_no)
              [] k = KeyCbReportNo -> OrEmpty(bi.cb_report_no)
              [] k = KeyAstReportNo -> ast_report_no
              [] k = KeyHeaderReportNo -> ast_report_no
              [] k = KeyCnsReportNo -> OrEmpty(bi.cns_report_no)
              [] k = KeyApplicantEn -> OrEmpty(bi.applicant_en)
              [] k = KeyApplicantAddressEn -> OrEmpty(bi.applicant_address_en)
              [] k = KeyModelMain -> EmptyStr
              [] k = KeyMainModel -> EmptyStr
              [] k = KeyBrand -> OrEmpty(bi.brand)
              [] k = KeyApplicantZh -> OrEmpty(trans.applicant_zh)
              [] k = KeyApplicantName -> OrEmpty(trans.applicant_zh)
              [] k = KeyApplicantAddressZh -> OrEmpty(trans.applicant_address_zh)
              [] k = KeyApplicantAddress -> OrEmpty(trans.applicant_address_zh)
              [] k = KeySeriesModel -> series_model
              [] k = KeyModelList -> series_model
              [] OTHER ->
                 IF \E i \in sliced : k = SeriesKey(i)
                 THEN OrEmpty(schema.series_models[
                          CHOOSE i \in sliced : k = SeriesKey(i)].model)
                 ELSE IF \E i \in sliced : k = SeriesVoutKey(i)
                 THEN OrEmpty(schema.series_models[
                          CHOOSE i \in sliced : k = SeriesVoutKey(i)].vout)
                 ELSE IF \E i \in rsliced, sfx \in RevSuffixes : k = RevKey(i, sfx)
                 THEN LET hit == CHOOSE h \in rsliced \X RevSuffixes :
                                     k = RevKey(h[1], h[2])
                      IN  RevField(schema.revision_records[hit[1]], hit[2])
                 ELSE EmptyStr]

\* placeholder_mapping[k] = v
DictPut(d, k, v) == [x \in DOMAIN d \cup {k} |-> IF x = k THEN v ELSE d[x]]

\* a mutation of UserInputOverrides: every form field is written, empty or not
UserInputAlways(mapping, ui) ==
    LET m1 == DictPut(DictPut(DictPut(mapping,
                  KeyApplicantName, ui.applicant_name),
                  KeyApplicantZh, ui.applicant_name),
                  KeyApplicantEn, ui.applicant_name)
        m2 == DictPut(DictPut(DictPut(m1,
                  KeyApplicantAddress, ui.applicant_address),
                  KeyApplicantAddressZh, ui.applicant_address),
                  KeyApplicantAddressEn, ui.applicant_address)
        m3 == DictPut(DictPut(m2, KeyReportNo, ui.cns_report_no),
                      KeyCnsReportNo, ui.cns_report_no)
        m4 == DictPut(m3, KeyReportAuthor, ui.report_author)
        m5 == DictPut(m4, KeyReportSigner, ui.report_signer)
    IN  DictPut(m5, KeySeriesModel, ui.series_model)

\* fill_cns_template, "if user_inputs:": each form field that is not empty
\* overwrites the keys the code lists for it
UserInputOverrides(mapping, ui) ==
    LET m1 == IF ui.applicant_name # EmptyStr
              THEN DictPut(DictPut(DictPut(mapping,
                       KeyApplicantName, ui.applicant_name),
                       KeyApplicantZh, ui.applicant_name),
                       KeyApplicantEn, ui.applicant_name)
              ELSE mapping
        m2 == IF ui.applicant_address # EmptyStr
              THEN DictPut(DictPut(DictPut(m1,
                       KeyApplicantAddress, ui.applicant_address),
                       KeyApplicantAddressZh, ui.applicant_address),
                       KeyApplicantAddressEn, ui.applicant_address)
              ELSE m1
        m3 == IF ui.cns_report_no # EmptyStr
              THEN DictPut(DictPut(m2, KeyReportNo, ui.cns_report_no),
                           KeyCnsReportNo, ui.cns_report_no)
              ELSE m2
        m4 == IF ui.report_author # EmptyStr
              THEN DictPut(m3, KeyReportAuthor, ui.report_author)
              ELSE m3
        m5 == IF ui.report_signer # EmptyStr
              THEN DictPut(m4, KeyReportSigner, ui.report_signer)
              ELSE m4
    IN  IF ui.series_model # EmptyStr
        THEN DictPut(m5, KeySeriesModel, ui.series_model)
        ELSE m5

\* get_paragraph_text / paragraph.text: a paragraph is its list of run texts
get_paragraph_text(paragraph) == Join(paragraph)

\* offset of the first "}" of s at or after offset i, Len(s) when there is none
FirstBrace(s, i) ==
    IF \E e \in i..(Len(s) - 1) : s[e + 1] = "}"
    THEN CHOOSE e \in i..(Len(s) - 1) :
            s[e + 1] = "}" /\ \A d \in i..(e - 1) : s[d + 1] # "}"
    ELSE Len(s)

\* PLACEHOLDER_PATTERN matches at offset i: "{{", one or more characters
\* other than "}", then "}}"
PatternAt(s, i) ==
    /\ MatchAt(s, Open, i)
    /\ FirstBrace(s, i + 2) > i + 2
    /\ MatchAt(s, Close, FirstBrace(s, i + 2))

\* PLACEHOLDER_PATTERN.findall(s) from offset i: the captured names
RECURSIVE FindAllFrom(_, _)
FindAllFrom(s, i) ==
    IF i >= Len(s) THEN <<>>
    ELSE IF PatternAt(s, i)
         THEN <<Slice(s, i + 2, FirstBrace(s, i + 2))>>
                 \o FindAllFrom(s, FirstBrace(s, i + 2) + 2)
         ELSE FindAllFrom(s, i + 1)

\* the loop of replace_placeholder_in_paragraph over the names found; a
\* ValueError raised by replace_text_in_runs ends it
RECURSIVE ReplaceEach(_, _, _)
ReplaceEach(rs, placeholders, mapping) ==
    IF placeholders = <<>> THEN [ret |-> "ok", runs |-> rs]
    ELSE LET placeholder == Head(placeholders)
             key == Strip(placeholder)
         IN  IF key \in DOMAIN mapping
             THEN LET r == replace_text_in_runs(rs, Open \o placeholder \o Close,
                                                mapping[key])
                  IN  IF r.ret = "ValueError" THEN r
                      ELSE ReplaceEach(r.runs, Tail(placeholders), mapping)
             ELSE ReplaceEach(rs, Tail(placeholders), mapping)

ReplaceFirstFound(paragraph, mapping) ==
    LET found == FindAllFrom(get_paragraph_text(paragraph), 0)
    IN  ReplaceEach(paragraph, IF found = <<>> THEN found ELSE <<Head(found)>>, mapping)

replace_placeholder_in_paragraph(paragraph, mapping) ==
    ReplaceEach(paragraph, FindAllFrom(get_paragraph_text(paragraph), 0), mapping)

\* the substitution loops over a list of paragraphs
RECURSIVE ReplaceInParagraphs(_, _)
ReplaceInParagraphs(paragraphs, mapping) ==
    IF paragraphs = <<>> THEN [ret |-> "ok", paragraphs |-> <<>>]
    ELSE LET r == replace_placeholder_in_paragraph(Head(paragraphs), mapping)
         IN  IF r.ret = "ValueError" THEN [ret |-> "ValueError", paragraphs |-> paragraphs]
             ELSE LET rest == ReplaceInParagraphs(Tail(paragraphs), mapping)
                  IN  [ret |-> rest.ret, paragraphs |-> <<r.runs>> \o rest.paragraphs]

(***************************************************************************)
(* Document structure: body holds the top-level paragraphs (doc.paragraphs),*)
(* tables the top-level tables (doc.tables), order the kinds "p" / "t" of   *)
(* the body's blocks in document order.  A table is a list of rows, a row a *)
(* list of cells, a cell a list of paragraphs.                              *)
(***************************************************************************)
\* a document without tables
PlainDoc(h, b, f) ==
    [header |-> h, body |-> b, footer |-> f, tables |-> <<>>,
     order |-> [k \in 1..Len(b) |-> "p"]]

\* cell.text
CellText(cell) == JoinLines([k \in 1..Len(cell) |-> get_paragraph_text(cell[k])])

\* cell.text = text: one paragraph with one run
TextCell(text) == << <<text>> >>

\* table._cells
RECURSIVE CellsOf(_)
CellsOf(table) ==
    IF table = <<>> THEN <<>> ELSE Head(table) \o CellsOf(Tail(table))

MapCells(table, F(_)) ==
    [r \in 1..Len(table) |-> [c \in 1..Len(table[r]) |-> F(table[r][c])]]

\* _replace_in_paragraph of replace_text_globally
ReplaceInParagraph(paragraph, pattern, replacement) ==
    IF pattern = <<>> \/ ~Contains(get_paragraph_text(paragraph), pattern)
    THEN paragraph
    ELSE [k \in 1..Len(paragraph) |->
            IF Contains(paragraph[k], pattern)
            THEN ReplaceAll(paragraph[k], pattern, replacement)
            ELSE paragraph[k]]

replace_text_globally(d, pattern, replacement) ==
    LET In(paragraphs) ==
            [k \in 1..Len(paragraphs) |->
                ReplaceInParagraph(paragraphs[k], pattern, replacement)]
    IN  [d EXCEPT !.body = In(d.body),
                  !.tables = [t \in 1..Len(d.tables) |-> MapCells(d.tables[t], In)],
                  !.header = In(d.header),
                  !.footer = In(d.footer)]

\* the fixed-value passes of fill_cns_template, in order: (pattern, replacement)
CleanupPasses(mapping) ==
    LET main_model_for_cleanup ==
            IF mapping[KeyMainModel] # EmptyStr THEN mapping[KeyMainModel]
            ELSE mapping[KeyModelMain]
    IN  (IF main_model_for_cleanup # EmptyStr
         THEN << <<LitMC601, main_model_for_cleanup>> >> ELSE <<>>)
        \o (IF mapping[KeyHeaderReportNo] # EmptyStr
            THEN << <<LitOldAst, mapping[KeyHeaderReportNo]>> >> ELSE <<>>)
        \o << <<LitInputTest, EmptyStr>>, <<LitAbnormal, EmptyStr>>,
              <<LitBlockInputTest, EmptyStr>>, <<LitBlockAbnormal, EmptyStr>>,
              <<LitAuthor, EmptyStr>>, <<LitSigner, EmptyStr>>,
              <<LitFactoryBlock, EmptyStr>>, <<LitAttachmentBlock, EmptyStr>>,
              <<LitBlockFactory, EmptyStr>>, <<LitBlockAttachment, EmptyStr>>,
              <<LitOldCb, EmptyStr>>, <<LitOldDk, EmptyStr>> >>

RECURSIVE ApplyPasses(_, _)
ApplyPasses(d, passes) ==
    IF passes = <<>> THEN d
    ELSE ApplyPasses(replace_text_globally(d, Head(passes)[1], Head(passes)[2]),
                     Tail(passes))

(***************************************************************************)
(* Block passes of fill_cns_template                                        *)
(***************************************************************************)
LitCaptionInputTest == <<"U+8868","U+683C",":"," ","U+8F38","U+5165","U+8A66","U+9A57">>
LitFactoryListTitle == <<"U+5DE5","U+5EE0","U+6E05","U+55AE">>
LitFactoryCell == <<"U+751F","U+7522","U+5EE0","U+5834">>
LitBlockTemperature ==
    <<"{","{","#","B","L","O","C","K",":","T","E","M","P","E","R","A","T","U","R","E",
      "_","R","E","Q","U","I","R","E","M","E","N","T","S","_","T","A","B","L","E","}",
      "}">>
LitBlockMaxOutput ==
    <<"{","{","#","B","L","O","C","K",":","M","A","X","_","O","U","T","P","U","T","_",
      "P","O","W","E","R","_","B","L","O","C","K","}","}">>
LitNone == <<"N","o","n","e">>
HdrFactoryName == <<"F","a","c","t","o","r","y"," ","n","a","m","e">>
HdrAddress == <<"A","d","d","r","e","s","s">>
HdrVoltage == <<"V","o","l","t","a","g","e">>
HdrFrequency == <<"F","r","e","q","u","e","n","c","y">>
HdrCurrent == <<"C","u","r","r","e","n","t">>
HdrPower == <<"P","o","w","e","r">>
HdrCondition == <<"C","o","n","d","i","t","i","o","n">>
HdrRemarks == <<"R","e","m","a","r","k","s">>
SepSlash == <<" ","/"," ">>
SepSemicolon == <<";"," ">>
Bullet == <<"U+2022"," ">>

\* str(v)
StrOf(v) == IF v = None THEN LitNone ELSE v

\* paragraph.text = "": the paragraph is left with one run without text
ClearedParagraph == <<EmptyStr>>

\* a row of a raw table is the list of its cell values, each one character
\* long; as texts
RowCells(row) == [k \in 1..Len(row) |-> <<row[k]>>]

\* _create_table: len(rows) + 1 rows of len(headers) cells, texts written
NewTable(headers, rows) ==
    [r \in 1..(Len(rows) + 1) |->
        [c \in 1..Len(headers) |->
            IF r = 1 THEN TextCell(StrOf(headers[c]))
            ELSE IF c <= Len(rows[r - 1]) THEN TextCell(StrOf(rows[r - 1][c]))
            ELSE TextCell(EmptyStr)]]

\* doc.add_table / doc.add_paragraph: the new block goes to the end of the body
AddTable(d, table) ==
    [d EXCEPT !.tables = Append(@, table), !.order = Append(@, "t")]
AddParagraph(d, text) ==
    [d EXCEPT !.body = Append(@, <<text>>), !.order = Append(@, "p")]

\* the body paragraphs whose text contains placeholder
BodyHits(d, placeholder) ==
    {k \in 1..Len(d.body) : Contains(get_paragraph_text(d.body[k]), placeholder)}

\* the cell paragraphs whose text contains placeholder: (table, row, cell,
\* paragraph)
CellHits(d, placeholder) ==
    UNION {UNION {UNION {
        {<<t, r, c, q>> : q \in {x \in 1..Len(d.tables[t][r][c]) :
              Contains(get_paragraph_text(d.tables[t][r][c][x]), placeholder)}} :
        c \in 1..Len(d.tables[t][r])} :
        r \in 1..Len(d.tables[t])} :
        t \in 1..Len(d.tables)}

LexLeq(a, b) ==
    \/ a = b
    \/ \E i \in 1..Len(a) : a[i] < b[i] /\ \A j \in 1..(i - 1) : a[j] = b[j]

FirstOf(hits) == CHOOSE h \in hits : \A g \in hits : LexLeq(h, g)
Least(set) == CHOOSE k \in set : \A h \in set : k <= h

insert_table_at_placeholder(d, placeholder, headers, rows) ==
    LET bh == BodyHits(d, placeholder)
        ch == CellHits(d, placeholder)
        created == AddTable(d, NewTable(headers, rows))
    IN  IF bh # {}
        THEN [ret |-> TRUE,
              doc |-> [created EXCEPT !.body[Least(bh)] = ClearedParagraph]]
        ELSE IF ch # {}
        THEN LET h == FirstOf(ch)
             IN  [ret |-> TRUE,
                  doc |-> [created EXCEPT !.tables[h[1]][h[2]][h[3]][h[4]] =
                                              ClearedParagraph]]
        ELSE [ret |-> FALSE, doc |-> d]

\* find_table_by_text_or_placeholder over doc.tables: the index, 0 for None
find_table_by_text_or_placeholder(d, keyword, placeholder) ==
    LET found == {t \in 1..Len(d.tables) :
                    \E c \in 1..Len(CellsOf(d.tables[t])) :
                        LET txt == CellText(CellsOf(d.tables[t])[c])
                        IN  \/ keyword # <<>> /\ Contains(txt, keyword)
                            \/ placeholder # <<>> /\ Contains(txt, placeholder)}
    IN  IF found = {} THEN 0 ELSE Least(found)

fill_table_with_rows(table, headers, rows) ==
    [r \in 1..(1 + Len(rows)) |->
        [c \in 1..(IF r <= Len(table) THEN Len(table[r]) ELSE Len(table[1])) |->
            IF r = 1
            THEN TextCell(IF c <= Len(headers) THEN StrOf(headers[c]) ELSE EmptyStr)
            ELSE TextCell(IF c <= Len(rows[r - 1]) /\ rows[r - 1][c] # None
                          THEN StrOf(rows[r - 1][c]) ELSE EmptyStr)]]

NotEmpty(v) == OrEmpty(v) # EmptyStr
FactoryLine(f) == JoinWith(SepSlash, SelectSeq(<<f.name, f.address>>, NotEmpty))
NamedFactory(f) == NotEmpty(f.name) \/ NotEmpty(f.address)

\* one row of render_factory_list, cell by cell from position at
RECURSIVE FactoryListRow(_, _, _)
FactoryListRow(row, at, summary) ==
    IF at > Len(row) THEN row
    ELSE IF Contains(CellText(row[at]), LitFactoryCell) /\ at + 1 <= Len(row)
    THEN FactoryListRow([row EXCEPT ![at + 1] = TextCell(summary)], at + 1, summary)
    ELSE FactoryListRow(row, at + 1, summary)

render_factory_list(d, factories) ==
    IF factories = <<>> THEN d
    ELSE LET named == SelectSeq(factories, NamedFactory)
             summary == JoinWith(SepSemicolon,
                                 [k \in 1..Len(named) |-> FactoryLine(named[k])])
         IN  [d EXCEPT !.tables =
                 [t \in 1..Len(d.tables) |->
                     [r \in 1..Len(d.tables[t]) |->
                         FactoryListRow(d.tables[t][r], 1, summary)]]]

render_factory_table_block(d, factories) ==
    IF factories = <<>> THEN d
    ELSE LET headers == <<HdrFactoryName, HdrAddress>>
             rows == [k \in 1..Len(factories) |->
                         <<factories[k].name, factories[k].address>>]
             ins == insert_table_at_placeholder(d, LitBlockFactory, headers, rows)
             placed == IF ins.ret THEN ins.doc
                       ELSE AddTable(AddParagraph(d, LitFactoryListTitle),
                                     NewTable(headers, rows))
         IN  replace_text_globally(placed, LitBlockFactory, EmptyStr)

\* an input_tests row is carried as the list of its cell values
render_input_test_table(d, key_tables) ==
    LET table == find_table_by_text_or_placeholder(d, LitCaptionInputTest,
                                                   LitBlockInputTest)
        raw == key_tables.input_test_raw
        has_raw == raw # NoneList /\ raw # EmptyList
        headers == IF has_raw THEN RowCells(raw[1])
                   ELSE <<HdrVoltage, HdrFrequency, HdrCurrent, HdrPower,
                          HdrCondition, HdrRemarks>>
        rows == IF has_raw THEN [k \in 1..(Len(raw) - 1) |-> RowCells(raw[k + 1])]
                ELSE [k \in 1..Len(key_tables.input_tests) |->
                         RowCells(key_tables.input_tests[k])]
    IN  IF ~has_raw /\ key_tables.input_tests = <<>> THEN d
        ELSE IF rows # <<>> /\ table # 0
        THEN [d EXCEPT !.tables[table] = fill_table_with_rows(@, headers, rows)]
        ELSE IF rows # <<>>
        THEN insert_table_at_placeholder(d, LitBlockInputTest, headers, rows).doc
        ELSE d

render_attachment_block(d, attachments) ==
    LET bh == BodyHits(d, LitBlockAttachment)
        ch == CellHits(d, LitBlockAttachment)
        written == <<EmptyStr>> \o [k \in 1..Len(attachments) |->
                                       Bullet \o attachments[k] \o <<Newline>>]
    IN  IF attachments = NoneList \/ attachments = <<>> THEN d
        ELSE IF bh # {} THEN [d EXCEPT !.body[Least(bh)] = written]
        ELSE IF ch # {}
        THEN LET h == FirstOf(ch)
             IN  [d EXCEPT !.tables[h[1]][h[2]][h[3]][h[4]] = written]
        ELSE d

\* the seven block passes in the order fill_cns_template calls them.  The
\* record of the model has no abnormal-fault table, temperature text or
\* maximum-output values: render_abnormal_fault_table returns at once, and
\* the temperature and maximum-output passes only blank their anchors.
RenderBlocks(d, schema) ==
    LET d1 == render_factory_list(d, schema.factories)
        d2 == render_factory_table_block(d1, schema.factories)
        d3 == render_input_test_table(d2, schema.key_tables)
        d4 == replace_text_globally(d3, LitBlockTemperature, EmptyStr)
        d5 == replace_text_globally(d4, LitBlockMaxOutput, EmptyStr)
    IN  render_attachment_block(d5, schema.attachments)

\* the texts of the paragraphs that have any
RECURSIVE TextsOf(_)
TextsOf(paragraphs) ==
    IF paragraphs = <<>> THEN <<>>
    ELSE (IF get_paragraph_text(Head(paragraphs)) # <<>>
          THEN <<get_paragraph_text(Head(paragraphs))>> ELSE <<>>)
         \o TextsOf(Tail(paragraphs))

\* the texts of the cells of the tables that have any
RECURSIVE CellTexts(_)
CellTexts(cells) ==
    IF cells = <<>> THEN <<>>
    ELSE (IF CellText(Head(cells)) # <<>> THEN <<CellText(Head(cells))>> ELSE <<>>)
         \o CellTexts(Tail(cells))

RECURSIVE TableTexts(_)
TableTexts(tables) ==
    IF tables = <<>> THEN <<>>
    ELSE CellTexts(CellsOf(Head(tables))) \o TableTexts(Tail(tables))

\* body paragraphs, table cells, then header and footer paragraphs of the
\* one section
extract_all_text(d) ==
    JoinLines(TextsOf(d.body) \o TableTexts(d.tables)
              \o TextsOf(d.header) \o TextsOf(d.footer))

\* re.search(r"DK-\d+|2025112058855971-00|25120522-000", text)
LegacySearch(text) ==
    \/ \E i \in 0..Len(text) :
          MatchAt(text, LitDK, i) /\ i + 4 <= Len(text) /\ text[i + 4] \in Digits
    \/ Contains(text, LitOldCb)
    \/ Contains(text, LitOldAstTail)

\* PLACEHOLDER_REGEX_RAW.search(text): "{{", then "}}" later on the same line
RawPlaceholderSearch(text) ==
    \E i \in 0..Len(text) : \E j \in (i + 2)..Len(text) :
        /\ MatchAt(text, Open, i)
        /\ MatchAt(text, Close, j)
        /\ \A k \in (i + 3)..j : text[k] # Newline

AnyParagraphHas(paragraphs, lit) ==
    \E k \in 1..Len(paragraphs) : Contains(get_paragraph_text(paragraphs[k]), lit)

ErrLegacy == "Legacy CB/AST report number residual detected"
ErrPlaceholder == "Unreplaced placeholder detected"
ErrHeader == "Header report number mismatch"
ErrFooter == "Footer report number mismatch"
ErrFactory == "Factory missing in output"

RECURSIVE FactoryErrors(_, _)
FactoryErrors(names, text) ==
    IF names = <<>> THEN <<>>
    ELSE (IF Head(names) # EmptyStr /\ ~Contains(text, Head(names))
          THEN <<ErrFactory>> ELSE <<>>)
         \o FactoryErrors(Tail(names), text)

ErrAst == "Unexpected AST report numbers"
ErrReports == "Unexpected report numbers"

LitASTBDash == <<"A","S","T","-","B","-">>
WordChars == Digits \cup Range(Lower) \cup Range(Upper) \cup {"_"}
\* the class [0-9A-Za-z_-]
AstChars == WordChars \cup {"-"}

\* the end (0-based, exclusive) of the longest run of characters of class
\* that starts at 0-based index i
RECURSIVE RunOf(_, _, _)
RunOf(text, i, class) ==
    IF i < Len(text) /\ text[i + 1] \in class THEN RunOf(text, i + 1, class) ELSE i

\* re.findall(r"AST-B-[0-9A-Za-z_-]+", text), scanning from index i
RECURSIVE AstNumbers(_, _)
AstNumbers(text, i) ==
    IF i >= Len(text) THEN {}
    ELSE IF MatchAt(text, LitASTBDash, i) /\ RunOf(text, i + 6, AstChars) > i + 6
    THEN {Slice(text, i, RunOf(text, i + 6, AstChars))}
         \cup AstNumbers(text, RunOf(text, i + 6, AstChars))
    ELSE AstNumbers(text, i + 1)

\* \b at 0-based position i of text
WordBoundary(text, i) ==
    (i > 0 /\ text[i] \in WordChars) # (i < Len(text) /\ text[i + 1] \in WordChars)

\* re.findall(r"\b[0-9]{8,}-[0-9]{2}\b", text), scanning from index i
RECURSIVE ReportTokens(_, _)
ReportTokens(text, i) ==
    IF i >= Len(text) THEN {}
    ELSE LET e == RunOf(text, i, Digits)
             hit == /\ WordBoundary(text, i)
                    /\ e - i >= 8
                    /\ e + 3 <= Len(text)
                    /\ text[e + 1] = "-"
                    /\ text[e + 2] \in Digits /\ text[e + 3] \in Digits
                    /\ WordBoundary(text, e + 3)
         IN  IF hit THEN {Slice(text, i, e + 3)} \cup ReportTokens(text, e + 3)
             ELSE ReportTokens(text, i + 1)

\* the checks of post_render_validate in the order of the code, each with
\* the entries it appends to errors.  The checks followed here are the
\* legacy-number, placeholder, header, footer, AST allow-list, report-token
\* and factory checks; the model, power, date and wording checks can only
\* add entries.
ValidationChecks(d, exp) ==
    LET text == extract_all_text(d)
        expected_report_no == exp.ast_report_no
        allow_reports == exp.report_numbers
                         \cup (IF expected_report_no # EmptyStr
                               THEN {expected_report_no} ELSE {})
        footer_checked ==
            \E k \in 1..Len(d.footer) :
                LET t == get_paragraph_text(d.footer[k])
                IN  t # <<>> /\ (Contains(t, LitASTB) \/ Contains(t, expected_report_no))
        header_ok == AnyParagraphHas(d.header, expected_report_no)
        footer_ok == AnyParagraphHas(d.footer, expected_report_no)
    IN  << (IF LegacySearch(text) THEN <<ErrLegacy>> ELSE <<>>),
           (IF RawPlaceholderSearch(text) THEN <<ErrPlaceholder>> ELSE <<>>),
           (IF expected_report_no # EmptyStr /\ ~header_ok THEN <<ErrHeader>> ELSE <<>>),
           (IF expected_report_no # EmptyStr /\ footer_checked /\ ~footer_ok
            THEN <<ErrFooter>> ELSE <<>>),
           (IF allow_reports # {} /\ AstNumbers(text, 0) \ allow_reports # {}
            THEN <<ErrAst>> ELSE <<>>),
           (IF allow_reports # {} /\ ReportTokens(text, 0) \ allow_reports # {}
            THEN <<ErrReports>> ELSE <<>>),
           FactoryErrors(exp.factories, text) >>

\* errors after every check has run: the entries of the checks, in order
RECURSIVE CollectErrors(_)
CollectErrors(checks) ==
    IF checks = <<>> THEN <<>> ELSE Head(checks) \o CollectErrors(Tail(checks))

\* a validator that raises at the first check that fails
RECURSIVE FirstFailure(_)
FirstFailure(checks) ==
    IF checks = <<>> THEN <<>>
    ELSE IF Head(checks) # <<>> THEN Head(checks)
    ELSE FirstFailure(Tail(checks))

RaiseAtFirstFailure(d, exp) == FirstFailure(ValidationChecks(d, exp))

\* the error list post_render_validate collects; it raises ValueError with
\* all of them joined when the list is not empty
post_render_validate(d, exp) == CollectErrors(ValidationChecks(d, exp))

\* f.name for f in schema.factories if f.name
RECURSIVE FactoryNames(_)
FactoryNames(factories) ==
    IF factories = <<>> THEN <<>>
    ELSE (IF OrEmpty(Head(factories).name) # EmptyStr
          THEN <<Head(factories).name>> ELSE <<>>)
         \o FactoryNames(Tail(factories))

\* the expectations fill_cns_template hands to the validator
ExpectedOf(schema, mapping) ==
    [ast_report_no |-> mapping[KeyHeaderReportNo],
     report_numbers |->
         {mapping[KeyHeaderReportNo], mapping[KeyReportNo], mapping[KeyCbReportNo],
          mapping[KeyCnsReportNo], OrEmpty(schema.basic_info.ast_report_no),
          OrEmpty(schema.basic_info.cb_report_no),
          OrEmpty(schema.basic_info.cns_report_no)} \ {EmptyStr},
     factories |-> FactoryNames(schema.factories)]

(***************************************************************************)
(* Specification of one render: fill_cns_template called by generate_report*)
(***************************************************************************)
ParPlain == << <<"a">> >>
ParBrand == <<TxtBrandToken>>
ParBrandSplit == <<Slice(TxtBrandToken, 0, 4), Slice(TxtBrandToken, 4, 9)>>
ParBrandSpaced == <<TxtBrandSpaced>>
ParUnknown == <<TxtUnknownToken>>
ParLegacy == <<TxtLegacy>>
ParOldDk == <<LitOldDk>>
ParAuthor == <<<<"b">>, LitAuthor>>
ParHeaderNo == <<TxtHeaderToken>>
ParASTB == <<LitASTB>>

BodyParagraphs == {ParPlain, ParBrand, ParBrandSpaced, ParBrandSplit, ParUnknown, ParLegacy,
                   ParOldDk, ParAuthor}
HeaderPool == {<<>>, <<ParHeaderNo>>, <<ParPlain>>}
FooterPool == {<<>>, <<ParHeaderNo>>, <<ParASTB>>}

\* templates without tables, block anchors or checkbox glyphs
Templates ==
    {PlainDoc(h, b, f) :
        h \in HeaderPool,
        b \in UNION {[1..n -> BodyParagraphs] : n \in 1..MaxParagraphs},
        f \in FooterPool}

\* records the extraction can hand to the render; no factories, key tables
\* or attachments, so that the block passes leave these templates as they are
RenderSchemas ==
    {[create_empty_schema EXCEPT
         !.basic_info = [cb_report_no |-> cb, ast_report_no |-> ast,
                         applicant_en |-> TxtX, brand |-> TxtX,
        cns_report_no |-> None, applicant_address_en |-> EmptyStr]] :
        cb \in {EmptyStr, TxtX}, ast \in {None, TxtY}}

InitRender ==
    /\ pc = "fill"
    /\ merged \in RenderSchemas
    /\ template \in Templates
    /\ doc = template
    /\ expected = <<>> /\ errors = <<>> /\ event = "none"
    /\ user_inputs = NoInputs /\ placeholder_mapping = <<>> /\ xml_content = <<>>
    /\ NoCalls
    /\ outcome = "none"
    /\ chunks = <<>> /\ idx = 0
    /\ max_concurrent = 1 /\ batch_start = 0
    /\ futures = <<>> /\ done_order = <<>>
    /\ runs = IdleRuns /\ runs0 = IdleRuns
    /\ old_text = <<>> /\ new_text = <<>>

\* fill_cns_template up to doc.save: the user_inputs block, the substitution
\* loops over body, tables, header and footer, the block passes, then the
\* fixed-value passes; an exception of a substitution leaves the function
\* before anything is saved
FillTemplate ==
    /\ pc = "fill"
    /\ LET mapping == UserInputOverrides(build_placeholder_mapping(merged), user_inputs)
           Sub(paragraphs) == ReplaceInParagraphs(paragraphs, mapping)
           Got(result) == result.paragraphs
           b == Sub(doc.body)
           t == [k \in 1..Len(doc.tables) |-> MapCells(doc.tables[k], Sub)]
           h == Sub(doc.header)
           f == Sub(doc.footer)
           raised == \/ b.ret = "ValueError" \/ h.ret = "ValueError"
                     \/ f.ret = "ValueError"
                     \/ \E k \in 1..Len(t) : \E c \in 1..Len(CellsOf(t[k])) :
                            CellsOf(t[k])[c].ret = "ValueError"
       IN  /\ placeholder_mapping' = mapping
           /\ IF raised
              THEN /\ outcome' = "ValueError"
                   /\ pc' = "fill_raised"
                   /\ doc' = doc
              ELSE /\ outcome' = "saved"
                   /\ pc' = "saved"
                   /\ doc' = ApplyPasses(
                                 RenderBlocks(
                                     [doc EXCEPT
                                         !.body = b.paragraphs,
                                         !.tables = [k \in 1..Len(t) |->
                                                        MapCells(t[k], Got)],
                                         !.header = h.paragraphs,
                                         !.footer = f.paragraphs],
                                     merged),
                                 CleanupPasses(mapping))
    /\ UNCHANGED <<chunks, merged, idx, max_concurrent, batch_start, futures,
                   done_order, template, expected, errors, event>>
    /\ UNCHANGED <<runs, runs0, old_text, new_text>>
    /\ UNCHANGED <<user_inputs, xml_content>>
    /\ UNCHANGED callVars

\* the rest of fill_cns_template: the validator runs on the saved file
\* inside try/except, its ValueError is logged as a warning, and the
\* function returns
ValidateOutput ==
    /\ pc = "saved"
    /\ LET exp == ExpectedOf(merged, placeholder_mapping)
       IN  /\ expected' = exp
           /\ errors' = post_render_validate(doc, exp)
           /\ outcome' = IF post_render_validate(doc, exp) # <<>>
                         THEN "warning" ELSE "valid"
    /\ pc' = "filled"
    /\ UNCHANGED <<chunks, merged, idx, max_concurrent, batch_start, futures,
                   done_order, template, doc, event>>
    /\ UNCHANGED <<runs, runs0, old_text, new_text>>
    /\ UNCHANGED extraVars

\* generate_report after fill_cns_template returned: the file is read and
\* sent in the "complete" event
SendComplete ==
    /\ pc = "filled"
    /\ event' = "complete"
    /\ pc' = "end"
    /\ UNCHANGED <<chunks, merged, idx, max_concurrent, batch_start, futures,
                   done_order, template, doc, expected, errors>>
    /\ UNCHANGED runVars
    /\ UNCHANGED extraVars

\* generate_report after fill_cns_template raised: the "error" event
SendError ==
    /\ pc = "fill_raised"
    /\ event' = "error"
    /\ pc' = "end"
    /\ UNCHANGED <<chunks, merged, idx, max_concurrent, batch_start, futures,
                   done_order, template, doc, expected, errors>>
    /\ UNCHANGED runVars
    /\ UNCHANGED extraVars

NextRender == FillTemplate \/ ValidateOutput \/ SendComplete \/ SendError

SpecRender == InitRender /\ [][NextRender]_vars

\* C1: a render whose validation finds at least one violation ends in an
\* error: fill_cns_template does not return normally and generate_report
\* does not send the artifact; a "complete" event implies an empty error list.
C1_ValidationFatal ==
    /\ pc = "filled" => errors = <<>>
    /\ event = "complete" => errors = <<>>

\* an unreplaced placeholder and a legacy number are found, and the
\* artifact is sent all the same
C1_InvalidArtifactSent ==
    /\ event = "complete"
    /\ doc.body = <<ParUnknown, ParLegacy>>
    /\ errors = <<ErrLegacy, ErrPlaceholder>>

(***************************************************************************)
(* Renders of templates in which every placeholder name is mapped          *)
(***************************************************************************)
ParBrandTwice == <<TxtBrandToken \o <<" ">> \o TxtBrandToken>>
ParBrandTwoRuns == <<TxtBrandToken, <<"-">>, TxtBrandToken>>

MappedParagraphs == {ParPlain, ParBrand, ParBrandSpaced, ParBrandTwice,
                     ParBrandTwoRuns, ParBrandSplit}

MappedTemplates ==
    {PlainDoc(h, b, f) :
        h \in {<<>>, <<ParHeaderNo>>},
        b \in UNION {[1..n -> MappedParagraphs] : n \in 1..MaxParagraphs},
        f \in {<<>>, <<ParHeaderNo>>}}

InitRenderMapped ==
    /\ pc = "fill"
    /\ merged \in RenderSchemas
    /\ template \in MappedTemplates
    /\ doc = template
    /\ expected = <<>> /\ errors = <<>> /\ event = "none"
    /\ user_inputs = NoInputs /\ placeholder_mapping = <<>> /\ xml_content = <<>>
    /\ NoCalls
    /\ outcome = "none"
    /\ chunks = <<>> /\ idx = 0
    /\ max_concurrent = 1 /\ batch_start = 0
    /\ futures = <<>> /\ done_order = <<>>
    /\ runs = IdleRuns /\ runs0 = IdleRuns
    /\ old_text = <<>> /\ new_text = <<>>

SpecRenderMapped == InitRenderMapped /\ [][NextRender]_vars

RECURSIVE Flatten(_)
Flatten(lists) == IF lists = <<>> THEN <<>> ELSE Head(lists) \o Flatten(Tail(lists))

AllParagraphs(d) ==
    d.body \o Flatten([t \in 1..Len(d.tables) |-> Flatten(CellsOf(d.tables[t]))])
    \o d.header \o d.footer

\* the placeholder names of a document, stripped as the lookup strips them
PlaceholderNames(d) ==
    UNION {{Strip(n) : n \in Range(FindAllFrom(get_paragraph_text(AllParagraphs(d)[k]), 0))} :
              k \in 1..Len(AllParagraphs(d))}

\* no {{...}} token in any paragraph, by either of the two patterns
NoToken(d) ==
    \A k \in 1..Len(AllParagraphs(d)) :
        LET t == get_paragraph_text(AllParagraphs(d)[k])
        IN  FindAllFrom(t, 0) = <<>> /\ ~RawPlaceholderSearch(t)

TxtZ == <<"Z">>

\* the form fields of generate_report: each either left out or given
UserInputPool ==
    [applicant_name : {EmptyStr, TxtZ}, applicant_address : {EmptyStr, TxtZ},
     cns_report_no : {EmptyStr, TxtZ}, report_author : {EmptyStr, TxtZ},
     report_signer : {EmptyStr, TxtZ}, series_model : {EmptyStr, TxtZ}]

\* records whose overridable fields are extracted or absent
OverrideSchemas ==
    {[create_empty_schema EXCEPT
         !.basic_info = [cb_report_no |-> TxtX, ast_report_no |-> None,
                         applicant_en |-> en, brand |-> TxtX,
                         cns_report_no |-> None,
                         applicant_address_en |-> TxtY],
         !.translations = [applicant_zh |-> TxtY, applicant_address_zh |-> None],
         !.series_models = <<SeriesModel(TxtX, TxtY)>>] :
        en \in {EmptyStr, TxtX}}

OverrideTemplates ==
    {PlainDoc(<<ParHeaderNo>>, <<ParBrand>>, <<>>),
     PlainDoc(<<>>, <<ParBrandSplit>>, <<>>)}

InitOverride ==
    /\ pc = "fill"
    /\ merged \in OverrideSchemas
    /\ user_inputs \in UserInputPool
    /\ template \in OverrideTemplates
    /\ doc = template
    /\ placeholder_mapping = <<>> /\ xml_content = <<>>
    /\ NoCalls
    /\ expected = <<>> /\ errors = <<>> /\ event = "none"
    /\ outcome = "none"
    /\ chunks = <<>> /\ idx = 0
    /\ max_concurrent = 1 /\ batch_start = 0
    /\ futures = <<>> /\ done_order = <<>>
    /\ runs = IdleRuns /\ runs0 = IdleRuns
    /\ old_text = <<>> /\ new_text = <<>>

SpecOverride == InitOverride /\ [][NextRender]_vars

\* the allow-listed form fields and the mapping keys the code ties to each
TiedKeys ==
    [applicant_name |-> {KeyApplicantName, KeyApplicantZh, KeyApplicantEn},
     applicant_address |-> {KeyApplicantAddress, KeyApplicantAddressZh,
                            KeyApplicantAddressEn},
     cns_report_no |-> {KeyReportNo, KeyCnsReportNo},
     report_author |-> {KeyReportAuthor},
     report_signer |-> {KeyReportSigner},
     series_model |-> {KeySeriesModel}]

AllTiedKeys == UNION {TiedKeys[f] : f \in DOMAIN TiedKeys}

\* k has in m the value it has in base, or is absent from both
SameEntry(m, base, k) ==
    IF k \in DOMAIN base THEN k \in DOMAIN m /\ m[k] = base[k]
    ELSE k \notin DOMAIN m

\* C14: once fill_cns_template has built its mapping, a form field that is
\* not empty is the value of every key tied to it, a form field that is
\* empty leaves the keys tied to it as build_placeholder_mapping made them,
\* and every other key has the value build_placeholder_mapping gave it
C14_OverridesOnAllowList ==
    pc # "fill" =>
        LET base == build_placeholder_mapping(merged)
        IN  /\ \A f \in DOMAIN TiedKeys :
                  IF user_inputs[f] # EmptyStr
                  THEN \A k \in TiedKeys[f] :
                          k \in DOMAIN placeholder_mapping
                          /\ placeholder_mapping[k] = user_inputs[f]
                  ELSE \A k \in TiedKeys[f] :
                          SameEntry(placeholder_mapping, base, k)
            /\ \A k \in (DOMAIN base \cup DOMAIN placeholder_mapping) \ AllTiedKeys :
                  SameEntry(placeholder_mapping, base, k)

C14_Witness ==
    /\ event = "complete"
    /\ user_inputs.applicant_name = TxtZ
    /\ user_inputs.cns_report_no = EmptyStr
    /\ user_inputs.series_model = EmptyStr
    /\ merged.basic_info.applicant_en = TxtX
    /\ placeholder_mapping[KeyApplicantEn] = TxtZ
    /\ placeholder_mapping[KeyApplicantZh] = TxtZ
    /\ placeholder_mapping[KeyReportNo] = TxtX
    /\ placeholder_mapping[KeySeriesModel] = TxtX
    /\ placeholder_mapping[KeyBrand] = TxtX

(***************************************************************************)
(* build_placeholder_mapping as a function of the record                    *)
(***************************************************************************)
SeriesEntries == {SeriesModel(TxtX, TxtY), SeriesModel(EmptyStr, None)}

\* series_models shorter than, as long as and longer than MAX_SERIES_MODELS
SeriesLists ==
    UNION {[1..n -> SeriesEntries] : n \in 0..(MAX_SERIES_MODELS + 1)}

RevFull == RevisionRecord(<<"0","1">>, TxtX, TxtY, TxtZ)
RevBare == RevisionRecord(<<"0","1">>, None, None, EmptyStr)

\* revision_records of length 0, 1, at the limit and beyond it
RevisionLists ==
    {<<>>, <<RevFull>>, <<RevBare>>,
     [i \in 1..MaxRevisions |-> IF i = 1 THEN RevFull ELSE RevBare],
     [i \in 1..(MaxRevisions + 1) |-> IF i = 2 THEN RevBare ELSE RevFull]}

MappingSchemas ==
    {[create_empty_schema EXCEPT !.series_models = sm, !.revision_records = rv] :
        sm \in SeriesLists, rv \in RevisionLists}

InitMapping ==
    /\ pc = "build"
    /\ merged \in MappingSchemas
    /\ placeholder_mapping = <<>>
    /\ user_inputs = NoInputs /\ xml_content = <<>>
    /\ NoCalls
    /\ template = IdleDoc /\ doc = IdleDoc
    /\ expected = <<>> /\ errors = <<>> /\ event = "none"
    /\ outcome = "none"
    /\ chunks = <<>> /\ idx = 0
    /\ max_concurrent = 1 /\ batch_start = 0
    /\ futures = <<>> /\ done_order = <<>>
    /\ runs = IdleRuns /\ runs0 = IdleRuns
    /\ old_text = <<>> /\ new_text = <<>>

\* placeholder_mapping = build_placeholder_mapping(schema)
BuildMapping ==
    /\ pc = "build"
    /\ placeholder_mapping' = build_placeholder_mapping(merged)
    /\ pc' = "built"
    /\ UNCHANGED <<chunks, merged, idx, max_concurrent, batch_start, futures,
                   done_order, user_inputs, xml_content>>
    /\ UNCHANGED runVars
    /\ UNCHANGED renderVars
    /\ UNCHANGED callVars

NextMapping == BuildMapping

SpecMapping == InitMapping /\ [][NextMapping]_vars

\* a text: a sequence none of whose elements is the None marker
IsStr(v) == DOMAIN v = 1..Len(v) /\ v # None

LblOrdinary == <<"U+666E","U+901A">>
LblSkilled == <<"U+6280","U+8853","U+4EBA","U+54E1">>
LblInstructed == <<"U+53D7","U+6307","U+5C0E","U+4EBA","U+54E1">>
LblDirectPlugin == <<"U+76F4","U+63D2","U+5F0F","U+8A2D","U+5099">>
LblStationary == <<"U+653E","U+7F6E","U+5F0F","U+8A2D","U+5099">>
LblBuildingIn == <<"U+5D01","U+5165","U+5F0F","U+8A2D","U+5099">>
LblWallCeiling == <<"U+58C1","U+9762","/","U+5929","U+82B1","U+677F","U+5B89","U+88DD","U+5F0F">>
LblRack == <<"S","R","M","E","/","U+6A5F","U+67B6","U+5B89","U+88DD">>
LblMovable == <<"U+79FB","U+52D5","U+5F0F","U+8A2D","U+5099">>
LblHandHeld == <<"U+624B","U+6301","U+5F0F","U+8A2D","U+5099">>
LblPortable == <<"U+53EF","U+651C","U+5F0F","U+8A2D","U+5099">>
LblEndProduct == <<"U+7D42","U+7AEF","U+7522","U+54C1">>
LblComponent == <<"U+5167","U+5EFA","U+5143","U+4EF6">>
LblACMains == <<"A","C"," ","m","a","i","n","s">>
LblDCMains == <<"D","C"," ","m","a","i","n","s">>
LblNotMains == <<"N","o","t"," ","m","a","i","n","s"," ","c","o","n","n","e","c","t","e","d",":">>
LblPD1 == <<"P","D"," ","1">>
LblPD2 == <<"P","D"," ","2">>
LblPD3 == <<"P","D"," ","3">>
LblTN == <<"T","N">>
LblTT == <<"T","T">>
LblIT == <<"I","T"," ","-">>
LitEndZh == <<"U+7D42","U+7AEF">>
LitComponentZh == <<"U+5143","U+4EF6">>
LitCOMPONENT == <<"C","O","M","P","O","N","E","N","T">>
LitAC == <<"A","C">>
LitDC == <<"D","C">>
LitNOT == <<"N","O","T">>
LitBATTERY == <<"B","A","T","T","E","R","Y">>
LitOne == <<"1">>
LitTwo == <<"2">>
LitThree == <<"3">>
LitSampleTable == <<"U+8A66","U+9A57","U+6A23","U+54C1","U+7279","U+6027">>

TblOpen == [tag |-> "tbl", text |-> <<>>, inner |-> <<>>]
TblClose == [tag |-> "/tbl", text |-> <<>>, inner |-> <<>>]
\* <w:tc> and </w:tc>, the bounds of a table cell
TcOpen == [tag |-> "tc", text |-> <<>>, inner |-> <<>>]
TcClose == [tag |-> "/tc", text |-> <<>>, inner |-> <<>>]
TextElement(text) == [tag |-> "t", text |-> text, inner |-> <<>>]
CheckBox(inner) == [tag |-> "checkBox", text |-> <<>>, inner |-> inner]

\* elements of a control: <w:default w:val="0"/>, <w:checked/>,
\* <w:checked w:val="1"/>, <w:checked w:val="0"/>
CheckedElements == {"checked", "checked1", "checked0"}

FlagLabels ==
    [is_ordinary |-> {LblOrdinary}, is_skilled |-> {LblSkilled},
     is_instructed |-> {LblInstructed}, is_direct_plugin |-> {LblDirectPlugin},
     is_stationary |-> {LblStationary}, is_building_in |-> {LblBuildingIn},
     is_wall_ceiling |-> {LblWallCeiling}, is_rack_mounted |-> {LblRack},
     is_portable |-> {LblMovable, LblHandHeld, LblPortable}]

\* labels_to_check of update_formcheckbox_in_xml
labels_to_check(checkbox_flags, tip) ==
    LET product_group == ToUpper(OrEmpty(tip.product_group))
        mains_supply == ToUpper(OrEmpty(tip.mains_supply))
        pollution == OrEmpty(tip.pollution_degree)
    IN  UNION {FlagLabels[f] : f \in {g \in DOMAIN FlagLabels : checkbox_flags[g]}}
        \cup (IF Contains(product_group, LitAV) \/ Contains(product_group, LitICT)
                 \/ Contains(product_group, LitEndZh)
              THEN {LblEndProduct}
              ELSE IF Contains(product_group, LitCOMPONENT)
                      \/ Contains(product_group, LitComponentZh)
              THEN {LblComponent} ELSE {})
        \cup (IF Contains(mains_supply, LitAC) THEN {LblACMains} ELSE {})
        \cup (IF Contains(mains_supply, LitDC) THEN {LblDCMains} ELSE {})
        \cup (IF Contains(mains_supply, LitNOT) \/ Contains(mains_supply, LitBATTERY)
              THEN {LblNotMains} ELSE {})
        \cup (IF Contains(pollution, LitOne) THEN {LblPD1}
              ELSE IF Contains(pollution, LitTwo) THEN {LblPD2}
              ELSE IF Contains(pollution, LitThree) THEN {LblPD3} ELSE {})
        \cup {LblTN}

\* labels_to_uncheck of update_formcheckbox_in_xml
labels_to_uncheck(checkbox_flags, tip) ==
    LET product_group == ToUpper(OrEmpty(tip.product_group))
        mains_supply == ToUpper(OrEmpty(tip.mains_supply))
        pollution == OrEmpty(tip.pollution_degree)
    IN  UNION {FlagLabels[f] : f \in {g \in DOMAIN FlagLabels : ~checkbox_flags[g]}}
        \cup (IF Contains(product_group, LitAV) \/ Contains(product_group, LitICT)
                 \/ Contains(product_group, LitEndZh)
              THEN {LblComponent}
              ELSE IF Contains(product_group, LitCOMPONENT)
                      \/ Contains(product_group, LitComponentZh)
              THEN {LblEndProduct} ELSE {})
        \cup (IF Contains(mains_supply, LitAC) THEN {} ELSE {LblACMains})
        \cup (IF Contains(mains_supply, LitDC) THEN {} ELSE {LblDCMains})
        \cup (IF Contains(mains_supply, LitNOT) \/ Contains(mains_supply, LitBATTERY)
              THEN {} ELSE {LblNotMains})
        \cup (IF Contains(pollution, LitOne) THEN {LblPD2, LblPD3}
              ELSE IF Contains(pollution, LitTwo) THEN {LblPD1, LblPD3}
              ELSE IF Contains(pollution, LitThree) THEN {LblPD1, LblPD2} ELSE {})
        \cup {LblTT, LblIT}

\* text_positions: the text elements whose stripped text is not empty
IsLabel(tok) == tok.tag = "t" /\ Strip(tok.text) # <<>>

\* the label of the control at index i: the text of the first text element
\* after it, None when there is none
LabelAfter(cell_xml, i) ==
    LET later == {j \in (i + 1)..Len(cell_xml) : IsLabel(cell_xml[j])}
    IN  IF later = {} THEN None
        ELSE Strip(cell_xml[CHOOSE j \in later : \A h \in later : j <= h].text)

\* a state test that takes every control for unchecked
NeverChecked(cb_inner) == FALSE

\* is_currently_checked
IsCurrentlyChecked(cb_inner) ==
    \E k \in 1..Len(cb_inner) : cb_inner[k] \in {"checked", "checked1"}

\* re.sub(r'<w:checked[^>]*/>', '', cb_inner)
RemoveChecked(cb_inner) == SelectSeq(cb_inner, LAMBDA e : e \notin CheckedElements)

\* process_checkbox_cell
process_checkbox_cell(cell_xml, to_check, to_uncheck) ==
    [i \in 1..Len(cell_xml) |->
        LET tok == cell_xml[i]
            label == LabelAfter(cell_xml, i)
        IN  IF tok.tag # "checkBox" \/ label = None THEN tok
            ELSE IF label \in to_check /\ ~IsCurrentlyChecked(tok.inner)
            THEN CheckBox(Append(tok.inner, "checked"))
            ELSE IF ~(label \in to_check /\ ~IsCurrentlyChecked(tok.inner))
                    /\ label \in to_uncheck /\ IsCurrentlyChecked(tok.inner)
            THEN CheckBox(RemoveChecked(tok.inner))
            ELSE tok]

\* re.search(r'(<w:tbl>.*?<caption>.*?</w:tbl>)', xml, DOTALL): the span from
\* the first <w:tbl> over the first caption after it to the first </w:tbl>
\* after that; <<0, 0>> when nothing matches
TableMatch(xml) ==
    LET opens == {i \in 1..Len(xml) : xml[i].tag = "tbl"}
        first == CHOOSE i \in opens : \A h \in opens : i <= h
        caps == {j \in 1..Len(xml) : j > first /\ xml[j].tag = "t"
                                      /\ Contains(xml[j].text, LitSampleTable)}
        cap == CHOOSE j \in caps : \A h \in caps : j <= h
        closes == {r \in 1..Len(xml) : r > cap /\ xml[r].tag = "/tbl"}
    IN  IF opens = {} \/ caps = {} \/ closes = {} THEN <<0, 0>>
        ELSE <<first, CHOOSE r \in closes : \A h \in closes : r <= h>>

update_formcheckbox_in_xml(xml, checkbox_flags, tip) ==
    LET m == TableMatch(xml)
    IN  IF m = <<0, 0>> THEN xml
        ELSE SubSeq(xml, 1, m[1] - 1)
             \o process_checkbox_cell(SubSeq(xml, m[1], m[2]),
                                      labels_to_check(checkbox_flags, tip),
                                      labels_to_uncheck(checkbox_flags, tip))
             \o SubSeq(xml, m[2] + 1, Len(xml))

LblOther == <<"N","o","t","e">>

\* controls as a template carries them: unchecked, checked, and the two
\* spellings with a value
ControlPool ==
    {CheckBox(<<"default0">>), CheckBox(<<"default0", "checked">>),
     CheckBox(<<"checked1">>), CheckBox(<<"checked0">>)}

LabelPool == {LblTN, LblTT, LblOrdinary, LblOther, LblPD1, LblPD2}

\* document.xml with the cells of the captioned table marked: the caption
\* in a cell of its own, a cell with a control and possibly its label, and
\* a cell with a label and possibly a control before it
CellMarkups ==
    {<<TblOpen, TcOpen, TextElement(LitSampleTable), TcClose, TcOpen, c1>> \o l1
        \o <<TcClose, TcOpen>> \o c2 \o <<TextElement(l2), TcClose, TblClose>> :
        c1 \in ControlPool,
        l1 \in {<<>>, <<TextElement(LblTT)>>, <<TextElement(LblOther)>>},
        c2 \in {<<>>, <<CheckBox(<<"default0">>)>>},
        l2 \in {LblTN, LblTT, LblOther}}

\* document.xml with a table ahead of the captioned one: its only cell
\* holds a control without a label; the captioned table begins with a cell
\* that holds a label
TwoTableMarkups ==
    {<<TblOpen, TcOpen, c0, TcClose, TblClose,
       TblOpen, TcOpen, TextElement(l1), TcClose,
       TcOpen, TextElement(LitSampleTable), TcClose, TblClose>> :
        c0 \in ControlPool, l1 \in {LblTN, LblTT, LblOther}}

\* document.xml: optionally a labelled control before the first table, then
\* the table captioned LitSampleTable holding two labelled controls; and
\* the markups with cells
MarkupPool ==
    {pre \o <<TblOpen, TextElement(LitSampleTable),
              c1, TextElement(l1), c2, TextElement(l2), TblClose>> :
        pre \in {<<>>, <<CheckBox(<<"default0">>), TextElement(LblTN)>>},
        c1 \in ControlPool, l1 \in LabelPool,
        c2 \in ControlPool, l2 \in {LblTT, LblOrdinary}}
    \cup CellMarkups \cup TwoTableMarkups

\* records: is_ordinary either way; pollution_degree missing, "2" or "1,2";
\* mains_supply missing or "AC"
PatchSchemas ==
    {[create_empty_schema EXCEPT !.checkbox_flags.is_ordinary = o,
                                 !.test_item_particulars.pollution_degree = pd,
                                 !.test_item_particulars.mains_supply = ms] :
        o \in BOOLEAN,
        pd \in {None, LitTwo, LitOne \o <<",">> \o LitTwo},
        ms \in {None, LitAC}}

InitPatch ==
    /\ pc = "patch"
    /\ merged \in PatchSchemas
    /\ xml_content \in MarkupPool
    /\ user_inputs = NoInputs /\ placeholder_mapping = <<>>
    /\ NoCalls
    /\ template = IdleDoc /\ doc = IdleDoc
    /\ expected = <<>> /\ errors = <<>> /\ event = "none"
    /\ outcome = "none"
    /\ chunks = <<>> /\ idx = 0
    /\ max_concurrent = 1 /\ batch_start = 0
    /\ futures = <<>> /\ done_order = <<>>
    /\ runs = IdleRuns /\ runs0 = IdleRuns
    /\ old_text = <<>> /\ new_text = <<>>

\* update_formcheckbox_in_docx: document.xml is read, patched and written back
UpdateFormCheckbox ==
    /\ pc = "patch"
    /\ xml_content' = update_formcheckbox_in_xml(xml_content, merged.checkbox_flags,
                                                 merged.test_item_particulars)
    /\ pc' = "patched"
    /\ UNCHANGED <<chunks, merged, idx, max_concurrent, batch_start, futures,
                   done_order, user_inputs, placeholder_mapping>>
    /\ UNCHANGED runVars
    /\ UNCHANGED renderVars
    /\ UNCHANGED callVars

NextPatch == UpdateFormCheckbox

SpecPatch == InitPatch /\ [][NextPatch]_vars

\* a checked-state marker: <w:checked/> or <w:checked w:val="1"/>
HasCheckedMarker(control) ==
    \E k \in 1..Len(control.inner) : control.inner[k] \in {"checked", "checked1"}

\* C16: across a patch, every control of the markup whose label is in the
\* must-be-checked set carries a checked marker afterwards, every control
\* whose label is in the must-be-unchecked set carries none, and every
\* control whose label is in neither set is the same as before
C16_PatchPostcondition ==
    [][(pc = "patch" /\ pc' = "patched") =>
        LET to_check == labels_to_check(merged.checkbox_flags,
                                        merged.test_item_particulars)
            to_uncheck == labels_to_uncheck(merged.checkbox_flags,
                                            merged.test_item_particulars)
        IN  /\ Len(xml_content') = Len(xml_content)
            /\ \A i \in 1..Len(xml_content) :
                  xml_content[i].tag = "checkBox" =>
                      LET label == LabelAfter(xml_content, i)
                      IN  /\ xml_content'[i].tag = "checkBox"
                          /\ label \in to_check => HasCheckedMarker(xml_content'[i])
                          /\ label \in to_uncheck => ~HasCheckedMarker(xml_content'[i])
                          /\ label \notin (to_check \cup to_uncheck)
                                => xml_content'[i] = xml_content[i]]_vars

\* the patch has run and the control ahead of the table, labelled TN, is
\* still unchecked
C16_OutsideTableUnchecked ==
    /\ pc = "patched"
    /\ xml_content[1] = CheckBox(<<"default0">>)
    /\ xml_content[2] = TextElement(LblTN)
    /\ xml_content[3] = TblOpen

\* the same postcondition for the controls inside the captioned table only
C16_InsideTableOnly ==
    [][(pc = "patch" /\ pc' = "patched") =>
        LET to_check == labels_to_check(merged.checkbox_flags,
                                        merged.test_item_particulars)
            to_uncheck == labels_to_uncheck(merged.checkbox_flags,
                                            merged.test_item_particulars)
            m == TableMatch(xml_content)
        IN  \A i \in m[1]..m[2] :
                  xml_content[i].tag = "checkBox" =>
                      LET label == LabelAfter(xml_content, i)
                      IN  /\ label \in to_check => HasCheckedMarker(xml_content'[i])
                          /\ label \in to_uncheck => ~HasCheckedMarker(xml_content'[i])
                          /\ label \notin (to_check \cup to_uncheck)
                                => xml_content'[i] = xml_content[i]]_vars

\* the label of the control at index i within its own table cell: the text
\* of the first text element after it and before the end of its cell, None
\* when the cell has none or the control is in no cell
CellLabelAfter(xml, i) ==
    LET ends == {e \in (i + 1)..Len(xml) : xml[e].tag = "/tc"}
        last == IF ends = {} THEN i ELSE CHOOSE e \in ends : \A h \in ends : e <= h
    IN  LabelAfter(SubSeq(xml, 1, last), i)

\* C25: across a patch, a control is decided by the label that follows it
\* in its own table cell: a control with no following label in its cell is
\* the same as before, and so is a control whose label in its cell is in
\* neither target set, whatever labels other cells or tables hold
C25_LabelOfOwnCell ==
    [][(pc = "patch" /\ pc' = "patched") =>
        LET to_check == labels_to_check(merged.checkbox_flags,
                                        merged.test_item_particulars)
            to_uncheck == labels_to_uncheck(merged.checkbox_flags,
                                            merged.test_item_particulars)
        IN  \A i \in 1..Len(xml_content) :
               (/\ xml_content[i].tag = "checkBox"
                /\ \E b \in 1..(i - 1) : xml_content[b].tag = "tc"
                /\ CellLabelAfter(xml_content, i) \notin (to_check \cup to_uncheck))
                   => xml_content'[i] = xml_content[i]]_vars

\* the patch added a checked marker to a control that is alone in its
\* cell, by the label TN of the next cell
C25_CheckedByNextCell ==
    /\ pc = "patched"
    /\ xml_content = <<TblOpen, TcOpen, TextElement(LitSampleTable), TcClose,
                       TcOpen, CheckBox(<<"checked0", "checked">>), TcClose,
                       TcOpen, TextElement(LblTN), TcClose, TblClose>>

\* C29: no label is in both target sets, and the patch applied to its own
\* output with the same record returns that output unchanged
C29_PatchIdempotent ==
    /\ labels_to_check(merged.checkbox_flags, merged.test_item_particulars)
          \cap labels_to_uncheck(merged.checkbox_flags, merged.test_item_particulars)
          = {}
    /\ pc = "patched" =>
          update_formcheckbox_in_xml(xml_content, merged.checkbox_flags,
                                     merged.test_item_particulars) = xml_content

\* a patch that added a marker to the control labelled PD 2 and removed the
\* marker of the control labelled PD 1
C29_Witness ==
    /\ pc = "patched"
    /\ merged.test_item_particulars.pollution_degree = LitTwo
    /\ \E i \in 1..(Len(xml_content) - 1) :
          /\ xml_content[i] = CheckBox(<<"checked0", "checked">>)
          /\ xml_content[i + 1] = TextElement(LblPD2)
    /\ \E i \in 1..(Len(xml_content) - 1) :
          /\ xml_content[i] = CheckBox(<<"default0">>)
          /\ xml_content[i + 1] = TextElement(LblTT)

(***************************************************************************)
(* post_render_validate as a function of the saved document                *)
(***************************************************************************)
TxtAst1 == <<"A","S","T","-","B","-","1">>
ParAst1 == <<TxtAst1>>
ParOldCb == <<LitOldCb>>
ParOldAstTail == <<LitOldAstTail>>
ParOldAst == <<LitOldAst>>

\* saved documents: header and footer with the report number, with other
\* text or without paragraphs; a body that is clean, carries one of the
\* numbers of the earlier case, or carries an unreplaced placeholder
ValidatedDocs ==
    {PlainDoc(h, <<b>>, f) :
        h \in {<<>>, <<ParAst1>>, <<ParPlain>>},
        b \in {ParPlain, ParLegacy, ParOldCb, ParOldAstTail, ParOldAst, ParUnknown},
        f \in {<<>>, <<ParAst1>>, <<ParPlain>>, <<ParASTB>>}}

ExpectedPool ==
    [ast_report_no : {EmptyStr, TxtAst1},
     report_numbers : {{}, {TxtAst1}},
     factories : {<<>>, <<FactoryF>>}]

InitValidate ==
    /\ pc = "validate"
    /\ doc \in ValidatedDocs
    /\ expected \in ExpectedPool
    /\ template = IdleDoc /\ errors = <<>> /\ event = "none"
    /\ merged = create_empty_schema
    /\ user_inputs = NoInputs /\ placeholder_mapping = <<>> /\ xml_content = <<>>
    /\ NoCalls
    /\ outcome = "none"
    /\ chunks = <<>> /\ idx = 0
    /\ max_concurrent = 1 /\ batch_start = 0
    /\ futures = <<>> /\ done_order = <<>>
    /\ runs = IdleRuns /\ runs0 = IdleRuns
    /\ old_text = <<>> /\ new_text = <<>>

\* post_render_validate(doc_path, expected): returns, or raises ValueError
\* with the collected errors
Validate ==
    /\ pc = "validate"
    /\ errors' = post_render_validate(doc, expected)
    /\ outcome' = IF post_render_validate(doc, expected) # <<>>
                  THEN "ValueError" ELSE "None"
    /\ pc' = "validated"
    /\ UNCHANGED <<chunks, merged, idx, max_concurrent, batch_start, futures,
                   done_order, template, doc, expected, event>>
    /\ UNCHANGED <<runs, runs0, old_text, new_text>>
    /\ UNCHANGED extraVars

NextValidate == Validate

SpecValidate == InitValidate /\ [][NextValidate]_vars

\* C19: when a primary report number is expected, the validator returns
\* without error only if a header paragraph and a footer paragraph both
\* contain it
C19_HeaderAndFooterRequired ==
    (pc = "validated" /\ expected.ast_report_no # EmptyStr /\ outcome = "None")
        => /\ AnyParagraphHas(doc.header, expected.ast_report_no)
           /\ AnyParagraphHas(doc.footer, expected.ast_report_no)

\* the validator accepted a document whose footer has text but not the
\* expected number
C19_FooterWithoutNumberPasses ==
    /\ pc = "validated"
    /\ outcome = "None" /\ errors = <<>>
    /\ expected.ast_report_no = TxtAst1
    /\ doc.header = <<ParAst1>>
    /\ doc.footer = <<ParPlain>>
    /\ doc.body = <<ParPlain>>

\* C20: a document that carries a number of the earlier case, and that the
\* validator accepts once that paragraph is replaced by plain text, is
\* rejected with the legacy failure as the only entry
C20_LegacyOnlyFailure ==
    (/\ pc = "validated"
     /\ LegacySearch(extract_all_text(doc))
     /\ post_render_validate([doc EXCEPT !.body = <<ParPlain>>], expected) = <<>>)
        => (outcome = "ValueError" /\ errors = <<ErrLegacy>>)

\* the validator reported two failures for a document whose only defect is
\* AST-B-25120522-000 in the body
C20_TwoFailures ==
    /\ pc = "validated"
    /\ doc = PlainDoc(<<ParAst1>>, <<ParOldAst>>, <<ParAst1>>)
    /\ expected.ast_report_no = TxtAst1
    /\ errors = <<ErrLegacy, ErrAst>>

\* the failure reasons among the entries of errors
Reasons == {errors[k] : k \in 1..Len(errors)}

\* C21: post_render_validate evaluates every check before it raises: each
\* check the saved document violates has its reason among the collected
\* errors, whatever the other checks found, and the call raises exactly
\* when some reason was collected
C21_AllFailuresReported ==
    pc = "validated" =>
        LET text == extract_all_text(doc)
            no == expected.ast_report_no
            allow == expected.report_numbers
                     \cup (IF no # EmptyStr THEN {no} ELSE {})
        IN  /\ LegacySearch(text) => ErrLegacy \in Reasons
            /\ RawPlaceholderSearch(text) => ErrPlaceholder \in Reasons
            /\ (no # EmptyStr /\ ~AnyParagraphHas(doc.header, no))
                   => ErrHeader \in Reasons
            /\ (allow # {} /\ \E n \in AstNumbers(text, 0) : n \notin allow)
                   => ErrAst \in Reasons
            /\ (\E k \in 1..Len(expected.factories) :
                    /\ expected.factories[k] # EmptyStr
                    /\ ~Contains(text, expected.factories[k]))
                   => ErrFactory \in Reasons
            /\ (outcome = "ValueError") = (errors # <<>>)

\* a document that violates four checks at once was rejected with the four
\* reasons
C21_Witness ==
    /\ pc = "validated"
    /\ outcome = "ValueError"
    /\ doc = PlainDoc(<<ParPlain>>, <<ParOldAst>>, <<ParAst1>>)
    /\ expected.ast_report_no = TxtAst1
    /\ expected.factories = <<FactoryF>>
    /\ errors = <<ErrLegacy, ErrHeader, ErrAst, ErrFactory>>

(***************************************************************************)
(* Renders of templates with tables and block anchors                       *)
(***************************************************************************)
ParAnchorInput == <<LitBlockInputTest>>
ParAnchorFactory == <<LitBlockFactory>>
LitBlockOpen == <<"{","{","#","B","L","O","C","K",":">>

\* a table that holds the caption of the input test table, and one that
\* holds neither caption nor anchor
TableCaptioned == << <<TextCell(LitCaptionInputTest), TextCell(<<"a">>)>> >>
TableOther == << <<TextCell(<<"a">>), TextCell(<<"b">>)>> >>

BlockParagraphs == {ParPlain, ParAnchorInput, ParAnchorFactory, ParBrandSplit}

\* templates: one or more paragraphs, and no table or one table ahead of
\* or behind them
BlockTemplates ==
    {[header |-> <<>>, body |-> b, footer |-> <<>>, tables |-> ts,
      order |-> IF ts = <<>> THEN [k \in 1..Len(b) |-> "p"]
                ELSE IF ahead THEN <<"t">> \o [k \in 1..Len(b) |-> "p"]
                ELSE [k \in 1..Len(b) |-> "p"] \o <<"t">>] :
        b \in UNION {[1..n -> BlockParagraphs] : n \in 1..MaxParagraphs},
        ts \in {<<>>, <<TableCaptioned>>, <<TableOther>>},
        ahead \in BOOLEAN}

\* records with and without a factory list and a raw input test table
BlockSchemas ==
    {[create_empty_schema EXCEPT
         !.factories = fs,
         !.key_tables = [input_tests |-> EmptyList, input_test_raw |-> raw]] :
        fs \in {EmptyList, <<FactoryInfo(FactoryF, FactoryG)>>},
        raw \in {NoneList, <<Row1, Row2>>}}

InitBlocks ==
    /\ pc = "fill"
    /\ merged \in BlockSchemas
    /\ template \in BlockTemplates
    /\ doc = template
    /\ user_inputs = NoInputs /\ placeholder_mapping = <<>> /\ xml_content = <<>>
    /\ NoCalls
    /\ expected = <<>> /\ errors = <<>> /\ event = "none"
    /\ outcome = "none"
    /\ chunks = <<>> /\ idx = 0
    /\ max_concurrent = 1 /\ batch_start = 0
    /\ futures = <<>> /\ done_order = <<>>
    /\ runs = IdleRuns /\ runs0 = IdleRuns
    /\ old_text = <<>> /\ new_text = <<>>

SpecBlocks == InitBlocks /\ [][NextRender]_vars

\* the render has produced a document
Rendered == pc \in {"saved", "filled"} \/ event = "complete"

\* the position in order of the k-th paragraph, and the index in tables of
\* the table at position i
PositionOfParagraph(order, k) ==
    CHOOSE i \in 1..Len(order) :
        order[i] = "p" /\ Cardinality({j \in 1..i : order[j] = "p"}) = k
TableIndexAt(order, i) == Cardinality({j \in 1..i : order[j] = "t"})

\* C17: when the record has input test rows, no table of the template holds
\* the caption or the anchor, and a body paragraph holds the anchor
\* {{#BLOCK:TABLE_B2_5_INPUT_TEST}}, then in the rendered document that
\* paragraph is empty and the block next to it is the new table
C17_TableAtAnchor ==
    (/\ Rendered
     /\ merged.key_tables.input_test_raw = <<Row1, Row2>>
     /\ find_table_by_text_or_placeholder(template, LitCaptionInputTest,
                                          LitBlockInputTest) = 0
     /\ BodyHits(template, LitBlockInputTest) # {})
        => LET k == Least(BodyHits(template, LitBlockInputTest))
               i == PositionOfParagraph(doc.order, k)
               table == NewTable(RowCells(Row1), <<RowCells(Row2)>>)
               IsNew(j) == /\ j \in 1..Len(doc.order)
                           /\ doc.order[j] = "t"
                           /\ doc.tables[TableIndexAt(doc.order, j)] = table
           IN  /\ get_paragraph_text(doc.body[k]) = EmptyStr
               /\ IsNew(i + 1) \/ IsNew(i - 1)

\* the render put the new table at the end of the body, behind the
\* paragraph that follows the anchor
C17_TableAtEnd ==
    /\ event = "complete"
    /\ template.body = <<ParAnchorInput, ParPlain>>
    /\ template.tables = <<>>
    /\ doc.body = <<ClearedParagraph, ParPlain>>
    /\ doc.order = <<"p", "p", "t">>
    /\ doc.tables = <<NewTable(RowCells(Row1), <<RowCells(Row2)>>)>>

\* C18: for a template without any {{#BLOCK:...}} anchor, the rendered
\* document has the template's sequence of paragraphs and tables
C18_StructurePreserved ==
    (/\ Rendered
     /\ \A k \in 1..Len(AllParagraphs(template)) :
           ~Contains(get_paragraph_text(AllParagraphs(template)[k]), LitBlockOpen))
        => /\ doc.order = template.order
           /\ Len(doc.body) = Len(template.body)
           /\ Len(doc.tables) = Len(template.tables)

\* the render of a record with a factory appended a paragraph and a table to
\* a template that has no anchor
C18_BlocksAppended ==
    /\ event = "complete"
    /\ template.body = <<ParPlain>>
    /\ template.tables = <<>>
    /\ merged.factories # <<>>
    /\ merged.key_tables.input_test_raw = NoneList
    /\ doc.order = <<"p", "p", "t">>
    /\ doc.body = <<ParPlain, <<LitFactoryListTitle>> >>

(***************************************************************************)
(* One replace_placeholder_in_paragraph call on a paragraph of runs         *)
(***************************************************************************)
NameA == <<"a">>
NameB == <<"b">>
TokenA == Open \o NameA \o Close
TokenB == Open \o NameB \o Close
Dash == <<"-">>
ValueY == <<"y">>

\* paragraph texts: the two placeholders in either order, and one alone
ParagraphTexts == {TokenA \o Dash \o TokenB, TokenB \o Dash \o TokenA, TokenA}

\* mappings of the two names: the value of a is plain text, the literal
\* {{b}}, or text that ends with the literal {{b}}
ParagraphMappings ==
    {(NameA :> va) @@ (NameB :> vb) :
        va \in {ValueShort, TokenB, ValueShort \o TokenB},
        vb \in {ValueY, EmptyStr}}

InitParagraph ==
    /\ pc = "call"
    /\ \E text \in ParagraphTexts : \E n \in 1..MaxRuns : runs0 \in Splits(text, n)
    /\ runs = runs0
    /\ placeholder_mapping \in ParagraphMappings
    /\ old_text = <<>> /\ new_text = <<>>
    /\ outcome = "none"
    /\ chunks = <<>> /\ merged = create_empty_schema /\ idx = 0
    /\ max_concurrent = 1 /\ batch_start = 0
    /\ futures = <<>> /\ done_order = <<>>
    /\ template = IdleDoc /\ doc = IdleDoc /\ expected = <<>> /\ errors = <<>> /\ event = "none"
    /\ user_inputs = NoInputs /\ xml_content = <<>>
    /\ NoCalls

\* replace_placeholder_in_paragraph(paragraph, mapping): returns the count,
\* or a ValueError of replace_text_in_runs propagates
ReplacePlaceholders ==
    /\ pc = "call"
    /\ LET r == replace_placeholder_in_paragraph(runs, placeholder_mapping)
       IN  /\ runs' = r.runs
           /\ outcome' = r.ret
           /\ pc' = IF r.ret = "ValueError" THEN "raised" ELSE "returned"
    /\ UNCHANGED <<chunks, merged, idx, max_concurrent, batch_start, futures,
                   done_order, runs0, old_text, new_text>>
    /\ UNCHANGED renderVars
    /\ UNCHANGED <<user_inputs, placeholder_mapping, xml_content>>
    /\ UNCHANGED callVars

NextParagraph == ReplacePlaceholders

SpecParagraph == InitParagraph /\ [][NextParagraph]_vars

\* C24: when the value substituted for {{a}} contains the literal {{b}} and
\* {{b}} also occurs later in the paragraph, the call leaves the value of a
\* exactly as inserted and replaces the original {{b}}
C24_InsertedTextKept ==
    (/\ pc = "returned"
     /\ Join(runs0) = TokenA \o Dash \o TokenB
     /\ Contains(placeholder_mapping[NameA], TokenB))
        => Join(runs) = placeholder_mapping[NameA] \o Dash \o placeholder_mapping[NameB]

\* the {{b}} inside the text inserted for {{a}} was replaced and the
\* original {{b}} is still in the paragraph
C24_InsertedTextReprocessed ==
    /\ pc = "returned"
    /\ runs0 = <<TokenA \o Dash \o TokenB>>
    /\ placeholder_mapping[NameA] = ValueShort \o TokenB
    /\ placeholder_mapping[NameB] = ValueY
    /\ runs = <<ValueShort \o ValueY \o Dash \o TokenB>>

(***************************************************************************)
(* Symbol checkboxes (replace_checkbox_in_paragraph)                        *)
(***************************************************************************)
\* CHECKBOX_UNCHECKED and CHECKBOX_CHECKED, one character each
CHECKBOX_UNCHECKED == <<"U+25A1">>
CHECKBOX_CHECKED == <<"U+25A0">>
Space == <<" ">>

Entry(label, is_checked) == [label |-> label, is_checked |-> is_checked]

\* build_checkbox_mapping(schema): the entries of the dict in the order of
\* their insertion
build_checkbox_mapping(schema) ==
    LET flags == schema.checkbox_flags
    IN <<Entry(<<"A","V">>, flags.is_av),
       Entry(<<"I","C","T">>, flags.is_ict),
       Entry(<<"A","u","d","i","o","/","V","i","d","e","o"," ","&"," ","I","C","T">>, flags.is_av_ict),
       Entry(<<"A","V"," ","&"," ","I","C","T">>, flags.is_av_ict),
       Entry(<<"T","e","l","e","c","o","m">>, flags.is_telecom),
       Entry(<<"O","r","d","i","n","a","r","y">>, flags.is_ordinary),
       Entry(<<"S","k","i","l","l","e","d">>, flags.is_skilled),
       Entry(<<"I","n","s","t","r","u","c","t","e","d">>, flags.is_instructed),
       Entry(<<"C","l","a","s","s"," ","I">>, flags.is_class_i),
       Entry(<<"C","l","a","s","s"," ","I","I">>, flags.is_class_ii),
       Entry(<<"C","l","a","s","s"," ","I","I","I">>, flags.is_class_iii),
       Entry(<<"d","i","r","e","c","t","_","p","l","u","g","i","n">>, flags.is_direct_plugin),
       Entry(<<"i","s","_","d","i","r","e","c","t","_","p","l","u","g","i","n">>, flags.is_direct_plugin),
       Entry(<<"s","t","a","t","i","o","n","a","r","y">>, flags.is_stationary),
       Entry(<<"i","s","_","s","t","a","t","i","o","n","a","r","y">>, flags.is_stationary),
       Entry(<<"b","u","i","l","d","i","n","g","_","i","n">>, flags.is_building_in),
       Entry(<<"i","s","_","b","u","i","l","d","i","n","g","_","i","n">>, flags.is_building_in),
       Entry(<<"w","a","l","l","_","c","e","i","l","i","n","g">>, flags.is_wall_ceiling),
       Entry(<<"i","s","_","w","a","l","l","_","c","e","i","l","i","n","g">>, flags.is_wall_ceiling),
       Entry(<<"r","a","c","k","_","m","o","u","n","t","e","d">>, flags.is_rack_mounted),
       Entry(<<"i","s","_","r","a","c","k","_","m","o","u","n","t","e","d">>, flags.is_rack_mounted),
       Entry(<<"p","o","r","t","a","b","l","e">>, flags.is_portable),
       Entry(<<"i","s","_","p","o","r","t","a","b","l","e">>, flags.is_portable),
       Entry(<<"f","i","x","e","d">>, flags.is_fixed),
       Entry(<<"i","s","_","f","i","x","e","d">>, flags.is_fixed),
       Entry(<<"P","o","r","t","a","b","l","e">>, flags.is_portable),
       Entry(<<"S","t","a","t","i","o","n","a","r","y">>, flags.is_stationary),
       Entry(<<"F","i","x","e","d">>, flags.is_fixed),
       Entry(<<"P","l","u","g","g","a","b","l","e"," ","T","y","p","e"," ","A">>, flags.is_pluggable_a),
       Entry(<<"P","l","u","g","g","a","b","l","e"," ","T","y","p","e"," ","B">>, flags.is_pluggable_b),
       Entry(<<"P","e","r","m","a","n","e","n","t","l","y"," ","C","o","n","n","e","c","t","e","d">>, flags.is_permanently_connected)>>

\* the five spellings of a checkbox with its label, in the order tried
CheckboxPatterns(label) ==
    <<CHECKBOX_UNCHECKED \o Space \o label,
      CHECKBOX_UNCHECKED \o label,
      <<"[">> \o label \o <<"]">> \o Space \o CHECKBOX_UNCHECKED,
      label \o Space \o CHECKBOX_UNCHECKED,
      CHECKBOX_UNCHECKED \o Space \o Space \o label>>

\* for pattern in patterns: the first spelling found in full_text for which
\* replace_text_in_runs returns true ends the loop
RECURSIVE TryPatterns(_, _, _)
TryPatterns(rs, full_text, patterns) ==
    IF patterns = <<>> THEN [ret |-> "ok", runs |-> rs]
    ELSE IF Contains(full_text, Head(patterns))
    THEN LET r == replace_text_in_runs(rs, CHECKBOX_UNCHECKED, CHECKBOX_CHECKED)
         IN  IF r.ret = "ValueError" THEN r
             ELSE IF r.ret = "True" THEN [ret |-> "ok", runs |-> r.runs]
             ELSE TryPatterns(rs, full_text, Tail(patterns))
    ELSE TryPatterns(rs, full_text, Tail(patterns))

\* for label, is_checked in checkbox_mapping.items()
RECURSIVE CheckboxEach(_, _, _)
CheckboxEach(rs, full_text, entries) ==
    IF entries = <<>> THEN [ret |-> "ok", runs |-> rs]
    ELSE IF ~Head(entries).is_checked THEN CheckboxEach(rs, full_text, Tail(entries))
    ELSE LET r == TryPatterns(rs, full_text, CheckboxPatterns(Head(entries).label))
         IN  IF r.ret = "ValueError" THEN r
             ELSE CheckboxEach(r.runs, full_text, Tail(entries))

\* full_text is read once, before the loop
replace_checkbox_in_paragraph(paragraph, checkbox_mapping) ==
    CheckboxEach(paragraph, get_paragraph_text(paragraph), checkbox_mapping)

\* paragraphs of the sample template with two checkboxes
TxtAvIct == CHECKBOX_UNCHECKED \o <<" ","A","V"," ">>
               \o CHECKBOX_UNCHECKED \o <<" ","I","C","T">>
TxtClasses == CHECKBOX_UNCHECKED \o <<" ","C","l","a","s","s"," ","I"," ">>
                 \o CHECKBOX_UNCHECKED \o <<" ","C","l","a","s","s"," ","I","I">>

\* the label and the flag of each checkbox of the two paragraphs, with the
\* position of its symbol in the text
CheckboxesOf(text) ==
    IF text = TxtAvIct THEN {<<1, "is_av">>, <<6, "is_ict">>}
    ELSE IF text = TxtClasses THEN {<<1, "is_class_i">>, <<11, "is_class_ii">>}
    ELSE {}

CheckboxSchemas ==
    {[create_empty_schema EXCEPT
        !.checkbox_flags = [CheckboxFlags EXCEPT !["is_av"] = a, !["is_ict"] = i,
                                                 !["is_class_i"] = c1,
                                                 !["is_class_ii"] = c2]] :
        a \in BOOLEAN, i \in BOOLEAN, c1 \in BOOLEAN, c2 \in BOOLEAN}

InitCheckbox ==
    /\ pc = "call"
    /\ \E text \in {TxtAvIct, TxtClasses} : \E n \in 1..MaxRuns : runs0 \in Splits(text, n)
    /\ runs = runs0
    /\ merged \in CheckboxSchemas
    /\ old_text = <<>> /\ new_text = <<>>
    /\ outcome = "none"
    /\ chunks = <<>> /\ idx = 0
    /\ max_concurrent = 1 /\ batch_start = 0
    /\ futures = <<>> /\ done_order = <<>>
    /\ template = IdleDoc /\ doc = IdleDoc /\ expected = <<>> /\ errors = <<>> /\ event = "none"
    /\ user_inputs = NoInputs /\ placeholder_mapping = <<>> /\ xml_content = <<>>
    /\ NoCalls

\* replace_checkbox_in_paragraph(paragraph, build_checkbox_mapping(schema))
ReplaceCheckbox ==
    /\ pc = "call"
    /\ LET r == replace_checkbox_in_paragraph(runs, build_checkbox_mapping(merged))
       IN  /\ runs' = r.runs
           /\ outcome' = r.ret
           /\ pc' = IF r.ret = "ValueError" THEN "raised" ELSE "returned"
    /\ UNCHANGED <<chunks, merged, idx, max_concurrent, batch_start, futures,
                   done_order, runs0, old_text, new_text>>
    /\ UNCHANGED renderVars
    /\ UNCHANGED extraVars

NextCheckbox == ReplaceCheckbox

SpecCheckbox == InitCheckbox /\ [][NextCheckbox]_vars

\* C27: in a paragraph with several checkboxes, the symbol of every label
\* whose flag is false is still the unchecked symbol after the call
C27_FalseLabelUnticked ==
    pc = "returned" =>
        \A cb \in CheckboxesOf(Join(runs0)) :
            ~merged.checkbox_flags[cb[2]]
                => <<Join(runs)[cb[1]]>> = CHECKBOX_UNCHECKED

\* with is_ict true and is_av false the call ticked the symbol of AV and
\* left the symbol of ICT unchecked
C27_WrongBoxTicked ==
    /\ pc = "returned"
    /\ Join(runs0) = TxtAvIct
    /\ merged.checkbox_flags["is_ict"] /\ ~merged.checkbox_flags["is_av"]
    /\ Join(runs) = CHECKBOX_CHECKED \o <<" ","A","V"," ">>
                       \o CHECKBOX_UNCHECKED \o <<" ","I","C","T">>

(***************************************************************************)
(* _infer_checkbox_flags as a function of the record                        *)
(***************************************************************************)
ClassIII == <<"C","l","a","s","s"," ","I","I","I">>
ClassTwoDigit == <<"c","l","a","s","s"," ","2">>

\* records whose class flags are all false: the supply connections of a
\* report with no, one or two entries, with the product group, the mobility
\* and the classification of use present or not
InferSchemas ==
    {[create_empty_schema EXCEPT
        !.test_item_particulars =
            [product_group |-> pg, mobility |-> mob,
             classification_of_use |-> use,
             supply_connection |-> sc,
             mains_supply |-> None, pollution_degree |-> None],
        !.checkbox_flags = [CheckboxFlags EXCEPT !["is_telecom"] = tel]] :
        pg \in {None, GroupAV, GroupICT},
        mob \in {None, Portable},
        use \in {<<>>, <<Ordinary>>},
        sc \in {<<>>, <<ClassI>>, <<ClassII>>, <<ClassIII>>, <<ClassI, ClassII>>,
                <<ClassTwoDigit>>},
        tel \in BOOLEAN}

InitInfer ==
    /\ pc = "infer"
    /\ merged \in InferSchemas
    /\ chunks = <<>> /\ idx = 0
    /\ max_concurrent = 1 /\ batch_start = 0
    /\ futures = <<>> /\ done_order = <<>>
    /\ runs = IdleRuns /\ runs0 = IdleRuns
    /\ old_text = <<>> /\ new_text = <<>> /\ outcome = "none"
    /\ template = IdleDoc /\ doc = IdleDoc /\ expected = <<>> /\ errors = <<>> /\ event = "none"
    /\ user_inputs = NoInputs /\ placeholder_mapping = <<>> /\ xml_content = <<>>
    /\ NoCalls

\* merged_schema = _infer_checkbox_flags(merged_schema)
InferOnly ==
    /\ pc = "infer"
    /\ merged' = _infer_checkbox_flags(merged)
    /\ pc' = "inferred"
    /\ UNCHANGED <<chunks, idx, max_concurrent, batch_start, futures, done_order>>
    /\ UNCHANGED runVars
    /\ UNCHANGED renderVars
    /\ UNCHANGED extraVars

NextInfer == InferOnly

SpecInfer == InitInfer /\ [][NextInfer]_vars

\* the entry, upper-cased, names the class by a numeral that ends there:
\* "CLASS I" not followed by another I, or "CLASS 1"
DenotesClassI(entry) ==
    LET up == ToUpper(entry)
    IN  \/ \E i \in 0..Len(up) :
              /\ MatchAt(up, LitCLASS_I, i)
              /\ (i + Len(LitCLASS_I) = Len(up) \/ up[i + Len(LitCLASS_I) + 1] # "I")
        \/ Contains(up, LitCLASS_1)

\* C30: after the inference on a record whose class flags were all false,
\* is_class_i is true only when some supply_connection entry denotes
\* Class I
C30_ClassIExact ==
    (pc = "inferred" /\ merged.checkbox_flags["is_class_i"])
        => \E k \in 1..Len(merged.test_item_particulars.supply_connection) :
              DenotesClassI(merged.test_item_particulars.supply_connection[k])

\* the only supply connection is "Class II" and the inference set is_class_i
\* together with is_class_ii
C30_ClassIIAlsoClassI ==
    /\ pc = "inferred"
    /\ merged.test_item_particulars.supply_connection = <<ClassII>>
    /\ merged.checkbox_flags["is_class_i"]
    /\ merged.checkbox_flags["is_class_ii"]
    /\ ~merged.checkbox_flags["is_class_iii"]

(***************************************************************************)
(* The token tracker of azure_llm.py under concurrent extractions: the      *)
(* module global _token_tracker, replaced at the start of every extraction, *)
(* updated by _call_llm in worker threads, read for the statistics.         *)
(***************************************************************************)
MaxCalls == 2 \* LLM calls of one extraction

\* the extractions running in the process: two requests
Extractions == {"first", "second"}

\* response.usage of a call: <<prompt_tokens, completion_tokens>>
Usages == {<<1, 1>>, <<2, 1>>}

\* a call before its response: st is "pending", "loaded" (add has read the
\* counters of the tracker the global named), "stale" (the same, and the
\* global has been replaced since), "added" or "failed" (no response)
PendingCall == [st |-> "pending", usage |-> <<0, 0>>, snap |-> TokenUsageTracker]

InitTracker ==
    /\ pc = "serve"
    /\ extractions \in [Extractions -> {[pc |-> "idle", stats |-> None,
                                         calls |-> [c \in 1..n |-> PendingCall]] :
                                           n \in 1..MaxCalls}]
    /\ _token_tracker = TokenUsageTracker
    /\ attempts = <<>>
    /\ merged = create_empty_schema
    /\ chunks = <<>> /\ idx = 0
    /\ max_concurrent = 1 /\ batch_start = 0
    /\ futures = <<>> /\ done_order = <<>>
    /\ runs = IdleRuns /\ runs0 = IdleRuns
    /\ old_text = <<>> /\ new_text = <<>> /\ outcome = "none"
    /\ template = IdleDoc /\ doc = IdleDoc /\ expected = <<>> /\ errors = <<>> /\ event = "none"
    /\ user_inputs = NoInputs /\ placeholder_mapping = <<>> /\ xml_content = <<>>

TrackerFrame ==
    /\ UNCHANGED <<chunks, merged, idx, pc, max_concurrent, batch_start, futures,
                   done_order, attempts>>
    /\ UNCHANGED runVars
    /\ UNCHANGED renderVars
    /\ UNCHANGED <<user_inputs, placeholder_mapping, xml_content>>

\* a call that has read the counters of the replaced tracker writes to that
\* tracker, which the global no longer names
Staled(call) == IF call.st = "loaded" THEN [call EXCEPT !.st = "stale"] ELSE call

\* extract_report_schema_from_adobe_json starts: the global is rebound to a
\* new tracker
BeginExtraction(e) ==
    /\ extractions[e].pc = "idle"
    /\ _token_tracker' = TokenUsageTracker
    /\ extractions' =
          [x \in Extractions |->
              [extractions[x] EXCEPT
                  !.pc = IF x = e THEN "running" ELSE @,
                  !.calls = [c \in DOMAIN @ |-> Staled(@[c])]]]
    /\ TrackerFrame

\* every attempt of a call raised: no response, nothing is added
CallFails(e, c) ==
    /\ extractions[e].pc = "running"
    /\ extractions[e].calls[c].st = "pending"
    /\ extractions' = [extractions EXCEPT ![e].calls[c].st = "failed"]
    /\ UNCHANGED _token_tracker
    /\ TrackerFrame

\* a call got its response; _token_tracker.add reads the counters of the
\* tracker the global names (the reads of self.x += n)
AddReads(e, c) ==
    /\ extractions[e].pc = "running"
    /\ extractions[e].calls[c].st = "pending"
    /\ \E u \in Usages :
          extractions' = [extractions EXCEPT
                             ![e].calls[c] = [st |-> "loaded", usage |-> u,
                                              snap |-> _token_tracker]]
    /\ UNCHANGED _token_tracker
    /\ TrackerFrame

\* add writes the counters it read, increased (the writes of self.x += n)
AddWrites(e, c) ==
    /\ extractions[e].calls[c].st \in {"loaded", "stale"}
    /\ LET call == extractions[e].calls[c]
       IN  _token_tracker' =
              IF call.st = "stale" THEN _token_tracker
              ELSE [total_prompt_tokens |->
                        call.snap.total_prompt_tokens + call.usage[1],
                    total_completion_tokens |->
                        call.snap.total_completion_tokens + call.usage[2],
                    call_count |-> call.snap.call_count + 1]
    /\ extractions' = [extractions EXCEPT ![e].calls[c].st = "added"]
    /\ TrackerFrame

\* stats = {...}: the statistics are read from the tracker the global names
\* once every call of the extraction has returned or failed
ReadStats(e) ==
    /\ extractions[e].pc = "running"
    /\ \A c \in DOMAIN extractions[e].calls :
          extractions[e].calls[c].st \in {"added", "failed"}
    /\ extractions' =
          [extractions EXCEPT
              ![e].pc = "finished",
              ![e].stats =
                  [total_tokens |-> _token_tracker.total_prompt_tokens
                                       + _token_tracker.total_completion_tokens,
                   prompt_tokens |-> _token_tracker.total_prompt_tokens,
                   completion_tokens |-> _token_tracker.total_completion_tokens,
                   llm_calls |-> _token_tracker.call_count]]
    /\ UNCHANGED _token_tracker
    /\ TrackerFrame

NextTracker ==
    \/ \E e \in Extractions : BeginExtraction(e)
    \/ \E e \in Extractions : \E c \in DOMAIN extractions[e].calls : CallFails(e, c)
    \/ \E e \in Extractions : \E c \in DOMAIN extractions[e].calls : AddReads(e, c)
    \/ \E e \in Extractions : \E c \in DOMAIN extractions[e].calls : AddWrites(e, c)
    \/ \E e \in Extractions : ReadStats(e)

SpecTracker == InitTracker /\ [][NextTracker]_vars

\* the calls of an extraction that returned a response
Responded(e) ==
    {c \in DOMAIN extractions[e].calls : extractions[e].calls[c].st = "added"}

\* the sum of field k of the usages of a set of calls of e
RECURSIVE SumUsage(_, _, _)
SumUsage(e, cs, k) ==
    IF cs = {} THEN 0
    ELSE LET c == CHOOSE x \in cs : TRUE
         IN  extractions[e].calls[c].usage[k] + SumUsage(e, cs \ {c}, k)

\* C28: the statistics an extraction returns count its own calls that
\* returned a response, and their token totals are the sums over those calls
C28_StatsOwnCalls ==
    \A e \in Extractions :
        extractions[e].pc = "finished" =>
            /\ extractions[e].stats.llm_calls = Cardinality(Responded(e))
            /\ extractions[e].stats.prompt_tokens = SumUsage(e, Responded(e), 1)
            /\ extractions[e].stats.completion_tokens = SumUsage(e, Responded(e), 2)

\* the first extraction returned statistics of zero calls although its one
\* call returned a response: the second extraction had started in between
\* and has made no call yet
C28_StatsOfOtherTracker ==
    /\ extractions["first"].pc = "finished"
    /\ Len(extractions["first"].calls) = 1
    /\ extractions["first"].calls[1].st = "added"
    /\ extractions["first"].stats.llm_calls = 0
    /\ extractions["second"].pc = "running"
    /\ \A c \in DOMAIN extractions["second"].calls :
          extractions["second"].calls[c].st = "pending"

====
